---- MODULE Spec2Model ----
(***************************************************************************)
(* A model of the prog-edu-assistant autograding backend:                  *)
(*   - the upload server (go/uploadserver/uploadserver.go, second version  *)
(*     of the file, lines 596-1490),                                       *)
(*   - the worker loop (go/cmd/worker/worker.go),                          *)
(*   - the grading engine (autograder package, unnamed/part_024),          *)
(*   - the notebook parser / emitter and the master-notebook transformer   *)
(*     (go/notebook/notebook.go, go/cmd/assign/assign.go).                 *)
(* Several specifications share the module; each one keeps the variables   *)
(* of the other parts at their initial values.                             *)
(***************************************************************************)
EXTENDS Integers, Sequences, FiniteSets, TLC

VARIABLES
  opts,             \* Server.opts: the flags the server was started with
  uploadDir,        \* the files of <upload_dir>: a set of [name, content]
  autogradeQ,       \* messages in flight on the autograde queue
  reportQ,          \* messages in flight on the report queue
  resp,             \* the last HTTP response (with the request that caused it)
  accepted,         \* submission ids answered with HTTP 200 by /upload
  reportTimestamp,  \* Server.reportTimestamp: id -> time of first poll (0 = zero time)
  now,              \* wall clock in milliseconds
  ticks,            \* number of clock steps taken (bounds the clock)
  nextId,           \* the next value uuid.New() returns
  workerMsg,        \* the message the worker took from the autograde queue (<<>> if none)
  scratch,          \* the paths that exist under the grader's scratch root
  autograder,       \* the Autograder's flags (DisableCleanup, AutoRemove)
  grading,          \* the local variables of a running Autograder.Grade call
  master,           \* the master notebook given to the assign command
  conv,             \* the local variables of a running ToStudent or ToAutograder
  written,          \* the files the assign command wrote: path -> content
  trip,             \* a notebook file on its way through Parse, Marshal and Parse
  session,          \* the user_session cookie a browser holds, and its last request
  posting,          \* the upload handlers inside scheduleCheck, and the Channel
  script,           \* a run of the Python script assembled for an inline test
  pool,             \* the workers consuming the autograde queue
  retry,            \* the loop that opens the queue when a command starts
  unitTest,         \* one unit test file on its way through RunUnitTests
  running           \* Grade calls running side by side in one process

serverVars == <<opts, uploadDir, autogradeQ, reportQ, resp, accepted,
                reportTimestamp, now, ticks, nextId, workerMsg>>
gradeVars == <<scratch, autograder, grading>>
assignVars == <<master, conv, written, trip>>
moreVars == <<session, posting, script, pool>>
lastVars == <<retry, unitTest, running>>

----------------------------------------------------------------------------
(* Bounds of the model.                                                    *)
MaxUploads == 2
MaxTicks == 3
MaxPolled == 1

(* Program constants.                                                      *)
maxUploadSize == 1048576
InitialReloadMs == 500
ErrorAfterMs == 10000
ResetAfterMs == 20000

----------------------------------------------------------------------------
(* JSON values as Go's encoding/json decodes them into interface{}.  Every *)
(* value is a record of one shape: t is the JSON type, s the string of a   *)
(* string value, n the number of a number value, o the content of an       *)
(* object value (the per-exercise outcome map of a report).                *)
NoObj == [report |-> "", graded |-> FALSE, passed |-> FALSE]
JStr(s) == [t |-> "string", s |-> s, n |-> 0, o |-> NoObj]
JNum(n) == [t |-> "number", s |-> "", n |-> n, o |-> NoObj]
JObj(o) == [t |-> "object", s |-> "", n |-> 0, o |-> o]
IsJStr(v) == v.t = "string"

(* map[string]interface{}: a function from the keys present to values.     *)
EmptyMap == [k \in {} |-> JNum(0)]
Has(m, k) == k \in DOMAIN m
Put(m, k, v) == [x \in (DOMAIN m) \cup {k} |-> IF x = k THEN v ELSE m[x]]

----------------------------------------------------------------------------
(* The assign command: a master notebook is converted by ToStudent or by   *)
(* ToAutograder.  Metadata parsed from a notebook's metadata blocks is a   *)
(* map from keys to the text of the values; exerciseMetadata starts as a   *)
(* nil map.  conv.state is "idle", "run" (inside MapCells), "converted"    *)
(* (ToAutograder returned), "done", "error" or "panic".  written maps the  *)
(* path of each file of the output directory, a sequence of names, to the  *)
(* file's content; conv.listing is what a dry run prints.                  *)
NoMetadata == [k \in {} |-> ""]
NilMetadata == [isNil |-> TRUE, map |-> NoMetadata]
NoNotebook == [hasMeta |-> FALSE, metadata |-> NoMetadata, cells |-> <<>>]
NoFiles == [p \in {} |-> ""]
IdleConv ==
  [op |-> "idle", state |-> "idle", lang |-> "", pos |-> 1, cells |-> <<>>,
   metadata |-> NilMetadata, assignmentMetadata |-> NoMetadata,
   exerciseMetadata |-> NilMetadata, assignmentID |-> "", exerciseID |-> "",
   globalContext |-> <<>>, exerciseContext |-> <<>>,
   dryRun |-> FALSE, listing |-> <<>>]
(* A notebook file is modelled by the JSON value it holds.  A JSON value   *)
(* is a record of one shape: t is its type, s the string of a string, n    *)
(* the number of a number, l the elements of a list and m the members of   *)
(* an object, a function from the keys present.                            *)
DNull == [t |-> "null", s |-> "", n |-> 0, l |-> <<>>, m |-> <<>>]
DStr(s) == [t |-> "string", s |-> s, n |-> 0, l |-> <<>>, m |-> <<>>]
DNum(n) == [t |-> "number", s |-> "", n |-> n, l |-> <<>>, m |-> <<>>]
DList(l) == [t |-> "list", s |-> "", n |-> 0, l |-> l, m |-> <<>>]
DMap(m) == [t |-> "map", s |-> "", n |-> 0, l |-> <<>>, m |-> m]
(* The Notebook struct, lines 18-29: Metadata is nil when hasMeta is       *)
(* false; Cells is nil when it is empty.                                   *)
EmptyNotebook ==
  [NBFormat |-> 0, NBFormatMinor |-> 0, hasMeta |-> FALSE, Metadata |-> <<>>,
   Cells |-> <<>>]
(* What Parse returns: an error or a notebook.                             *)
NoParse == [err |-> TRUE, nb |-> EmptyNotebook]
IdleTrip ==
  [stage |-> "idle", file |-> DNull, parsed |-> NoParse, emitted |-> DNull,
   reparsed |-> NoParse]
AssignIdle ==
  /\ master = NoNotebook
  /\ conv = IdleConv
  /\ written = NoFiles
  /\ trip = IdleTrip

----------------------------------------------------------------------------
(* Uploaded notebooks.  The bytes of an upload are modelled by what        *)
(* json.Unmarshal makes of them: NotJSON, or a JSON object with an         *)
(* optional "metadata" value and a list of cells.                          *)
(* parses tells whether notebook.Parse accepts the object (its "cells" is  *)
(* a list of objects with well-formed outputs).                            *)
NotJSON == [json |-> FALSE, hasMeta |-> FALSE, metaIsMap |-> FALSE,
            metadata |-> EmptyMap, parses |-> FALSE, cells |-> <<>>]
Notebook(hasMeta, isMap, md, parses, cells) ==
  [json |-> TRUE, hasMeta |-> hasMeta, metaIsMap |-> isMap,
   metadata |-> md, parses |-> parses, cells |-> cells]

(* A cell of a submission: its metadata map and its source text.           *)
(* hasMeta is false for a cell whose Metadata is nil.                      *)
SubCell(hasMeta, md, src) == [hasMeta |-> hasMeta, metadata |-> md, source |-> src]

(* uploadserver.go handleUpload, lines 1246-1257: the metadata map of the  *)
(* upload is reused when it is a map, created otherwise, and the three     *)
(* identifiers are stored in it.                                           *)
InjectMetadataMutant(b, submissionID, userHash, ts) ==
  LET metadata == IF b.hasMeta /\ b.metaIsMap THEN b.metadata ELSE EmptyMap
  IN [b EXCEPT !.hasMeta = TRUE, !.metaIsMap = TRUE,
               !.metadata = Put(Put(Put(metadata,
                                "submission_id", JStr(userHash)),
                                "user_hash", JStr(userHash)),
                                "timestamp", JNum(ts))]
InjectMetadata(b, submissionID, userHash, ts) ==
  LET metadata == IF b.hasMeta /\ b.metaIsMap THEN b.metadata ELSE EmptyMap
  IN [b EXCEPT !.hasMeta = TRUE, !.metaIsMap = TRUE,
               !.metadata = Put(Put(Put(metadata,
                                "submission_id", JStr(submissionID)),
                                "user_hash", JStr(userHash)),
                                "timestamp", JNum(ts))]

(* Submission ids: uuid.New().String() never repeats; the model hands out  *)
(* the names of this sequence in order.                                    *)
Uuid(n) == "uuid" \o ToString(n)
ReportURL(submissionID) == "/report/" \o submissionID
IpynbName(submissionID) == submissionID \o ".ipynb"
TxtName(submissionID) == submissionID \o ".txt"
FileExists(dir, name) == \E f \in dir : f.name = name
WriteFile(dir, name, content) ==
  {f \in dir : f.name # name} \cup {[name |-> name, content |-> content]}

----------------------------------------------------------------------------
(* The autograder asset tree (Autograder.Dir): assignment id -> exercise   *)
(* id -> the files of the exercise directory.  isDir is false for a path   *)
(* that exists but is a plain file.                                        *)
ExerciseDir(hasEmpty, empty, unit, inline, templates) ==
  [isDir |-> TRUE, hasEmpty |-> hasEmpty, empty |-> empty,
   unitTests |-> unit, inlineTests |-> inline, templates |-> templates]
PlainFile ==
  [isDir |-> FALSE, hasEmpty |-> FALSE, empty |-> "",
   unitTests |-> {}, inlineTests |-> {}, templates |-> {}]

Prompt == "..."
Solved == "x = 1"
Sources == {Prompt, Solved}

AssetTree ==
  ("a1" :> [isDir |-> TRUE,
            exercises |->
              ("e1" :> ExerciseDir(TRUE, Prompt, {"HelloTest.py"}, {"t1"}, {})
               @@ "submission_id" :> ExerciseDir(FALSE, "", {}, {"t2"}, {"r_template.py"})
               @@ "notes.txt" :> PlainFile)])
  @@ ("README" :> [isDir |-> FALSE, exercises |-> ("e1" :> PlainFile)])

(* The scratch root: the set of paths that exist under Autograder.ScratchDir; *)
(* a path is the sequence of its components.                               *)
IsPrefix(p, q) == Len(p) <= Len(q) /\ SubSeq(q, 1, Len(p)) = p
RemoveAllMutant(sc, p) == sc \ {p}
RemoveAll(sc, p) == {q \in sc : ~IsPrefix(p, q)}

(* autograder.CreateScratchDir: the exercise files, submission.py,         *)
(* submission_source.py and one <Name>_inlinetest.py per inline test.      *)
CreateScratchDir(sc, ex, scratchDir) ==
  sc \cup {scratchDir}
     \cup {scratchDir \o <<f>> : f \in ex.unitTests \cup ex.templates}
     \cup {scratchDir \o <<n \o "_context.py">> : n \in ex.inlineTests}
     \cup {scratchDir \o <<n \o "_inline.py">> : n \in ex.inlineTests}
     \cup {scratchDir \o <<n \o "_inlinetest.py">> : n \in ex.inlineTests}
     \cup {scratchDir \o <<"submission.py">>, scratchDir \o <<"submission_source.py">>}
     \cup (IF ex.hasEmpty THEN {scratchDir \o <<"empty_submission.py">>} ELSE {})

(* The processes one exercise starts: nsjail for every *Test.py and        *)
(* *_inlinetest.py, python for every *_template.py.                        *)
Procs(exerciseID, ex) ==
  {[exercise |-> exerciseID, kind |-> "unittest", file |-> f] : f \in ex.unitTests}
  \cup {[exercise |-> exerciseID, kind |-> "inlinetest", file |-> n \o "_inlinetest.py"] :
          n \in ex.inlineTests}
  \cup {[exercise |-> exerciseID, kind |-> "template", file |-> f] : f \in ex.templates}

(* strings.Contains.                                                       *)
Contains(s, sub) ==
  \E i \in 1..(Len(s) - Len(sub) + 1) : SubSeq(s, i, i + Len(sub) - 1) = sub

(* fmt.Sprintf("%s: empty submission", exerciseName), line 371.            *)
EmptyReport(exerciseName) == exerciseName \o ": empty submission"

(* The result of one GradeExercise call: err, the outcome map, the scratch *)
(* root afterwards and the processes started.  env.execOK is false when    *)
(* the sandbox binary cannot be started, env.passed is what the tests say. *)
GradeExerciseMutant(ex, exerciseName, scratchDir, submission, env, sc) ==
  IF ~env.execOK /\ (ex.unitTests \cup ex.inlineTests) # {}
  THEN [err |-> TRUE, outcome |-> NoObj,
        scratch |-> CreateScratchDir(sc, ex, scratchDir), procs |-> {}]
  ELSE [err |-> FALSE,
        outcome |-> [report |-> IF ex.hasEmpty /\ ex.empty = submission
                                THEN EmptyReport(exerciseName)
                                ELSE "report of " \o exerciseName,
                     graded |-> TRUE, passed |-> env.passed],
        scratch |-> CreateScratchDir(sc, ex, scratchDir),
        procs |-> Procs(exerciseName, ex)]

GradeExercise(ex, exerciseName, scratchDir, submission, env, sc) ==
  IF ex.hasEmpty /\ ex.empty = submission
  THEN [err |-> FALSE,
        outcome |-> [report |-> EmptyReport(exerciseName),
                     graded |-> FALSE, passed |-> FALSE],
        scratch |-> sc, procs |-> {}]
  ELSE IF ~env.execOK /\ (ex.unitTests \cup ex.inlineTests) # {}
  THEN [err |-> TRUE, outcome |-> NoObj,
        scratch |-> CreateScratchDir(sc, ex, scratchDir), procs |-> {}]
  ELSE [err |-> FALSE,
        outcome |-> [report |-> "report of " \o exerciseName,
                     graded |-> TRUE, passed |-> env.passed],
        scratch |-> CreateScratchDir(sc, ex, scratchDir),
        procs |-> Procs(exerciseName, ex)]

----------------------------------------------------------------------------
(* Autograder.Grade as three steps: the part before the loop over the      *)
(* cells, one iteration of the loop, and the part after the loop.  A job   *)
(* is the record of Grade's local variables; err is "none", "plain" (an    *)
(* error without id) or "id" (an ErrorWithId carrying submissionID).       *)
IdleJob ==
  [pc |-> "idle", nb |-> NotJSON, i |-> 1, submissionID |-> "",
   assignmentID |-> "", userHash |-> "", requested |-> "",
   result |-> EmptyMap, exerciseFound |-> FALSE, err |-> "none",
   report |-> EmptyMap, procs |-> {}, created |-> FALSE,
   call |-> [exercise |-> "", submission |-> "", empty |-> FALSE,
             outcome |-> NoObj, procs |-> {}, populated |-> FALSE]]

FailedMutant(job, kind) == [job EXCEPT !.pc = "done", !.err = "plain"]
Failed(job, kind) == [job EXCEPT !.pc = "done", !.err = kind]

(* The deferred os.RemoveAll(baseScratchDir), registered once the scratch  *)
(* directory was made and DisableCleanup is off.                           *)
CleanupMutant(ag, job, sc) == sc
Cleanup(ag, job, sc) ==
  IF job.created /\ ~ag.DisableCleanup THEN RemoveAll(sc, <<job.submissionID>>) ELSE sc

(* Lines 207-292.  Result: the job and the scratch root afterwards.        *)
GradeProlog(ag, b, sc) ==
  LET md == b.metadata
      job0 == [IdleJob EXCEPT !.nb = b]
  IN
  IF ~b.json \/ ~b.hasMeta \/ ~b.metaIsMap
  THEN [job |-> Failed(job0, "plain"), scratch |-> sc]
  ELSE IF ~Has(md, "submission_id") \/ ~IsJStr(md["submission_id"])
  THEN [job |-> Failed(job0, "plain"), scratch |-> sc]
  ELSE
  LET job1 == [job0 EXCEPT !.submissionID = md["submission_id"].s] IN
  IF ~Has(md, "assignment_id") \/ ~IsJStr(md["assignment_id"])
  THEN [job |-> Failed(job1, "id"), scratch |-> sc]
  ELSE IF Has(md, "user_hash") /\ ~IsJStr(md["user_hash"])
  THEN [job |-> Failed(job1, "id"), scratch |-> sc]
  ELSE
  LET job2 == [job1 EXCEPT
                 !.assignmentID = md["assignment_id"].s,
                 !.userHash = IF Has(md, "user_hash") THEN md["user_hash"].s
                              ELSE "unknown",
                 !.requested = IF Has(md, "requested_exercise_id")
                                  /\ IsJStr(md["requested_exercise_id"])
                               THEN md["requested_exercise_id"].s ELSE ""]
      base == <<job2.submissionID>>
  IN
  IF job2.assignmentID \notin DOMAIN AssetTree
     \/ ~AssetTree[job2.assignmentID].isDir
  THEN [job |-> Failed(job2, "id"), scratch |-> sc]
  ELSE IF ~b.parses
  THEN [job |-> Failed(job2, "id"), scratch |-> sc]
  ELSE IF ~ag.AutoRemove /\ base \in sc
  THEN [job |-> Failed(job2, "id"), scratch |-> sc]
  ELSE [job |-> [job2 EXCEPT !.pc = "loop", !.created = TRUE],
        scratch |-> (IF ag.AutoRemove THEN RemoveAll(sc, base) ELSE sc) \cup {base}]

(* Lines 295-330: one iteration of the loop, for the cell job.i.           *)
GradeCell(ag, job, env, sc) ==
  LET cell == job.nb.cells[job.i]
      next == [job EXCEPT !.i = job.i + 1]
      dir == AssetTree[job.assignmentID].exercises
  IN
  IF ~cell.hasMeta \/ ~Has(cell.metadata, "exercise_id")
  THEN [job |-> next, scratch |-> sc]
  ELSE IF ~IsJStr(cell.metadata["exercise_id"])
  THEN [job |-> Failed(job, "id"), scratch |-> Cleanup(ag, job, sc)]
  ELSE
  LET exerciseID == cell.metadata["exercise_id"].s IN
  IF job.requested # "" /\ job.requested # exerciseID
  THEN [job |-> next, scratch |-> sc]
  ELSE
  LET found == [next EXCEPT !.exerciseFound = TRUE] IN
  IF exerciseID \notin DOMAIN dir \/ ~dir[exerciseID].isDir
  THEN [job |-> Failed(found, "id"), scratch |-> Cleanup(ag, job, sc)]
  ELSE
  LET scratchDir == <<job.submissionID, exerciseID>>
      r == GradeExercise(dir[exerciseID], exerciseID, scratchDir, cell.source, env, sc)
      called == [found EXCEPT
                   !.procs = @ \cup r.procs,
                   !.call = [exercise |-> exerciseID, submission |-> cell.source,
                             empty |-> dir[exerciseID].hasEmpty
                                       /\ dir[exerciseID].empty = cell.source,
                             outcome |-> r.outcome, procs |-> r.procs,
                             populated |-> r.scratch # sc]]
  IN
  IF r.err
  THEN [job |-> Failed(called, "id"), scratch |-> Cleanup(ag, job, r.scratch)]
  ELSE [job |-> [called EXCEPT !.result = Put(@, exerciseID, JObj(r.outcome))],
        scratch |-> r.scratch]

(* Lines 331-337: the fixed keys are stored after the loop, over whatever  *)
(* the exercises stored under the same names.                              *)
FinishResultMutant(result, exerciseFound, assignmentID, userHash, submissionID, ts) ==
  LET fixed == Put(Put(Put(Put(EmptyMap,
                 "assignment_id", JStr(assignmentID)),
                 "user_hash", JStr(userHash)),
                 "submission_id", JStr(submissionID)),
                 "timestamp", JNum(ts))
  IN [k \in DOMAIN fixed \cup DOMAIN result |->
        IF k \in DOMAIN result THEN result[k] ELSE fixed[k]]

FinishResult(result, exerciseFound, assignmentID, userHash, submissionID, ts) ==
  LET r0 == IF ~exerciseFound
            THEN Put(result, "error", JStr("no exercises found")) ELSE result
  IN Put(Put(Put(Put(r0,
       "assignment_id", JStr(assignmentID)),
       "user_hash", JStr(userHash)),
       "submission_id", JStr(submissionID)),
       "timestamp", JNum(ts))

(* Lines 331-343, with the deferred cleanup.  json.MarshalIndent of a map  *)
(* of strings, numbers and maps does not fail; the report bytes are        *)
(* modelled by the object they encode.                                     *)
GradeEpilog(ag, job, ts, sc) ==
  [job |-> [job EXCEPT !.pc = "done",
              !.report = FinishResult(job.result, job.exerciseFound,
                           job.assignmentID, job.userHash, job.submissionID, ts)],
   scratch |-> Cleanup(ag, job, sc)]

(* One step of Grade, whichever applies.                                   *)
GradeStep(ag, job, env, ts, sc) ==
  IF job.i <= Len(job.nb.cells) THEN GradeCell(ag, job, env, sc)
  ELSE GradeEpilog(ag, job, ts, sc)

(* The whole call: Grade(notebookBytes).  The(S) is the element of the     *)
(* one-element set S; each step's result is computed once and handed on.   *)
The(S) == CHOOSE x \in S : TRUE

RECURSIVE GradeLoop(_, _, _, _, _)
GradeLoop(ag, job, env, ts, sc) ==
  IF job.pc = "done" THEN [job |-> job, scratch |-> sc]
  ELSE The({GradeLoop(ag, r.job, env, ts, r.scratch) :
              r \in {GradeStep(ag, job, env, ts, sc)}})

Grade(ag, b, env, ts, sc) ==
  The({GradeLoop(ag, r.job, env, ts, r.scratch) : r \in {GradeProlog(ag, b, sc)}})

----------------------------------------------------------------------------
(* The upload server.                                                      *)

(* An HTTP response, with the request it answers (req) and that request's  *)
(* method, cookie and sizes.  body.kind: "empty"; "text" (a plain text body, text is what   *)
(* it says); "login" (the page of handleError whose link goes to text);    *)
(* "uploadResult" (the page of uploadResultTmpl, whose link goes to text); *)
(* "report" (reportTmpl); "wait" (the page that reloads itself after       *)
(* reloadMs); "errorPage" (the page that does not reload).                 *)
(* The browser of one user: cookie is the user_session cookie it holds     *)
(* ("none", "valid", "nohash" or "undecodable", as for authenticate),      *)
(* cleared tells that the server saved the session without a hash and no   *)
(* callback has stored one since, method, path and status describe the     *)
(* last request and its answer, n counts the requests.                     *)
IdleSession ==
  [cookie |-> "none", cleared |-> FALSE, method |-> "", path |-> "",
   status |-> 0, n |-> 0]
(* The goroutines net/http runs the upload handlers in, and the Channel of *)
(* the server (queue.go, lines 8-15): pc is where each handler is ("idle", *)
(* "getQueue" at the lookup of lines 46-48, "declare" between the          *)
(* QueueDeclare call and the store of line 61, "publish" at line 71), id   *)
(* the submission it posts, queues the keys of Channel.queues, fatal tells *)
(* that the runtime stopped the process.  Receive declared the report      *)
(* queue before the server started (main.go, line 164).                    *)
Handlers == {"h1", "h2", "h3"}
IdlePosting ==
  [pc |-> [h \in Handlers |-> "idle"], id |-> [h \in Handlers |-> ""],
   queues |-> {"report"}, fatal |-> FALSE]
(* One run of the script generateInlineTest assembles, and what            *)
(* RunInlineTest makes of it.  A section of the script is described by     *)
(* what its code does: it first prints the text prints, and then kind is  *)
(* "absent" (an empty context), "ok", "raise", with the class and the      *)
(* message of the exception, "exit" (sys.exit(0)) or "hang" (it runs until *)
(* the sandbox kills it).  stage is "idle", "context", "submission",       *)
(* "inline", "exited" or "parsed"; out is the combined output, status the  *)
(* exit status, ran the sections entered, outcome the map returned and     *)
(* report the HTML fragment returned.                                      *)
Section(kind, class, msg) ==
  [kind |-> kind, class |-> class, msg |-> msg, prints |-> ""]
NoOutcome == [passed |-> FALSE, hasError |-> FALSE, error |-> ""]
IdleScript ==
  [stage |-> "idle", Context |-> Section("absent", "", ""),
   Submission |-> Section("ok", "", ""), Inline |-> Section("ok", "", ""),
   out |-> "", status |-> 0, ran |-> {}, outcome |-> NoOutcome, report |-> ""]
(* The worker processes consuming the autograde queue: alive tells which   *)
(* run, inbox holds the messages the broker has delivered to a worker and  *)
(* the worker has not graded yet; delivered (pairs of a submission id and  *)
(* a worker), graded (submission ids) and lost (the ids a worker held when *)
(* it crashed) record what happened.                                       *)
Workers == {"w1", "w2"}
IdlePool ==
  [alive |-> [w \in Workers |-> TRUE], inbox |-> [w \in Workers |-> <<>>],
   delivered |-> <<>>, graded |-> <<>>, lost |-> {}]

(* The loop that opens the queue, worker.go lines 73-95 and main.go lines   *)
(* 148-171: pc is "idle", "open" (queue.Open is being called), "sleep",    *)
(* "receive", "listening" (the loop was left with a channel) or "fatal"    *)
(* (run returned an error); delay is the variable of that name, t the time *)
(* in milliseconds since retryUntil was computed, sleeps the sleeps taken. *)
IdleRetry == [pc |-> "idle", who |-> "", delay |-> 0, t |-> 0, sleeps |-> <<>>]
(* One *Test.py file in RunUnitTests: lines are the lines the test runner  *)
(* wrote, each with the kind of line it is, out is the captured output,    *)
(* status the exit status of the sandbox, started tells whether the        *)
(* command could be started, testOutcome is the map stored for the file    *)
(* (passed, the entries of the methods, and the error if there is one).    *)
NoMethods == [k \in {} |-> FALSE]
NoTestOutcome == [passed |-> FALSE, methods |-> NoMethods, error |-> ""]
IdleUnit ==
  [stage |-> "idle", lines |-> <<>>, out |-> "", status |-> 0, started |-> TRUE,
   testOutcome |-> NoTestOutcome]
(* The grading jobs of one process: cwd is the working directory of the    *)
(* process, and every job has its position in GradeExercise, its exercise  *)
(* and the commands it ran, each with the directory its script was looked  *)
(* up in.                                                                  *)
SubmissionIDs == {"s1", "s2"}
IdleRun == [pc |-> "idle", exercise |-> "", ran |-> <<>>]
IdleRunning == [cwd |-> "/", job |-> [id \in SubmissionIDs |-> IdleRun]]

(* The state of the parts a specification does not use.                   *)
MoreIdle ==
  /\ session = IdleSession
  /\ posting = IdlePosting
  /\ script = IdleScript
  /\ pool = IdlePool

LastIdle ==
  /\ retry = IdleRetry
  /\ unitTest = IdleUnit
  /\ running = IdleRunning

Body(kind, text, reloadMs) == [kind |-> kind, text |-> text, reloadMs |-> reloadMs]
Response(path, req, status, body, xReportUrl, id) ==
  [path |-> path, method |-> req.method, cookie |-> req.cookie,
   bodyLen |-> req.bodyLen, formLen |-> req.formLen, status |-> status,
   body |-> body,
   xReportUrl |-> xReportUrl, id |-> id, req |-> req]
NoResponse ==
  [path |-> "", method |-> "", cookie |-> "", bodyLen |-> 0, formLen |-> 0,
   status |-> 0, body |-> Body("empty", "", 0), xReportUrl |-> "", id |-> "",
   req |-> [method |-> ""]]

(* Server.authenticate, lines 1171-1183.  The cookie of the request is     *)
(* "none", "valid" (a session with a non-empty hash), "nohash" (a session  *)
(* without a hash or with an empty one) or "undecodable" (cookieStore.Get  *)
(* returns an error).  The result is the error returned: "" for none,      *)
(* "401" for httpError(StatusUnauthorized), "error" for any other error.   *)
authenticate(cookie) ==
  IF cookie = "undecodable" THEN "error"
  ELSE IF cookie \in {"none", "nohash"} THEN "401"
  ELSE ""

(* handleError, lines 788-811: the response for an error a handler returned. *)
handleError(path, req, err, xReportUrl) ==
  IF err = "401"
  THEN Response(path, req, 401, Body("login", "/login", 0), xReportUrl, "")
  ELSE Response(path, req, 500, Body("text", "error", 0), xReportUrl, "")

(* http.MaxBytesReader with req.ParseMultipartForm, lines 1218-1222: the   *)
(* form is read from a body cut off after maxUploadSize bytes.  formLen is *)
(* the length of the body up to the closing boundary of the form, where    *)
(* the multipart reader stops reading.                                     *)
ParseMultipartFormMutant(formLen) == TRUE

ParseMultipartForm(formLen) == formLen <= maxUploadSize

(* The X-Report-Url header and the link of the result page, line 1263.     *)
reportURLMutant(submissionID) == "/report/"

reportURL(submissionID) == ReportURL(submissionID)


(* The name of the report file written after grading in-process, line 1304. *)
reportFilenameMutant(submissionID) == IpynbName(submissionID)

reportFilename(submissionID) == TxtName(submissionID)

(* Server.handleUpload, lines 1188-1329, as a function of the request and  *)
(* the server's state.  The request: method, cookie, bodyLen, formLen,     *)
(* hasPart (the form has a "notebook" file), content (the uploaded bytes), *)
(* postOK (Channel.Post succeeds), bucketOK (the object store accepts the  *)
(* log of the upload: the client is created, Write and Close succeed),     *)
(* reportLogOK (the same for the log of the report, lines 1309-1327), env  *)
(* (what the sandbox does when grading in-process).  LogToBucket stands    *)
(* for the condition of lines 1268 and 1309, the flag with a bucket name.  *)
handleUpload(o, req, dir, id, sc, gr, t) ==
  LET same == [resp |-> NoResponse, uploadDir |-> dir, posted |-> <<>>,
               used |-> FALSE, scratch |-> sc]
      authErr == IF o.UseOpenID THEN authenticate(req.cookie) ELSE ""
      userHash == IF o.UseOpenID THEN "hash" ELSE "unknown"
      dir1 == WriteFile(dir, IpynbName(id), req.content)
      b == InjectMetadata(req.content, id, userHash, t \div 1000)
      url == reportURL(id)
      stored == [same EXCEPT !.uploadDir = dir1, !.used = TRUE]
  IN
  IF req.method = "OPTIONS"
  THEN [same EXCEPT !.resp = Response("/upload", req, 200, Body("empty", "", 0), "", "")]
  ELSE IF authErr # ""
  THEN [same EXCEPT !.resp = handleError("/upload", req, authErr, "")]
  ELSE IF req.method # "POST"
  THEN [same EXCEPT !.resp = handleError("/upload", req, "error", "")]
  ELSE IF ~ParseMultipartForm(req.formLen)
  THEN [same EXCEPT !.resp = handleError("/upload", req, "error", "")]
  ELSE IF ~req.hasPart
  THEN [same EXCEPT !.resp = handleError("/upload", req, "error", "")]
  ELSE IF ~req.content.json
  THEN [stored EXCEPT !.resp = handleError("/upload", req, "error", "")]
  ELSE IF o.LogToBucket /\ ~req.bucketOK
  THEN [stored EXCEPT !.resp = handleError("/upload", req, "error", url)]
  ELSE IF ~o.GradeLocally
  THEN IF ~req.postOK
       THEN [stored EXCEPT !.resp = handleError("/upload", req, "error", url)]
       ELSE [stored EXCEPT
               !.posted = <<b>>,
               !.resp = Response("/upload", req, 200,
                                 Body("uploadResult", url, 0), url, id)]
  ELSE
  LET g == Grade(gr, b, req.env, t \div 1000, sc)
      graded == [stored EXCEPT !.scratch = g.scratch]
  IN
  IF g.job.err # "none"
  THEN [graded EXCEPT !.resp = handleError("/upload", req, "error", url)]
  ELSE IF o.LogToBucket /\ ~req.reportLogOK
  THEN [graded EXCEPT
          !.uploadDir = WriteFile(dir1, reportFilename(id),
                                  [json |-> TRUE, data |-> g.job.report]),
          !.resp = handleError("/upload", req, "error", url)]
  ELSE [graded EXCEPT
          !.uploadDir = WriteFile(dir1, reportFilename(id),
                                  [json |-> TRUE, data |-> g.job.report]),
          !.resp = Response("/upload", req, 200, Body("report", "", 0), url, id)]

(* handleReport, lines 833-856: the reload delay of the placeholder page.  *)
(* known tells whether reportTimestamp holds a non-zero time ts for the    *)
(* id, t is time.Now().  Result: the delay, whether the time of this       *)
(* request is stored, and whether the error page is served.                *)
backoffMutant(known, ts, t) ==
  LET reloadMs == IF known THEN t - ts ELSE InitialReloadMs
  IN [reloadMs |-> reloadMs, store |-> ~known, errorPage |-> reloadMs > ErrorAfterMs]

backoff(known, ts, t) ==
  LET reloadMs == IF known THEN t - ts ELSE InitialReloadMs
      reset == reloadMs > ResetAfterMs
      reloadMs2 == IF reset THEN InitialReloadMs ELSE reloadMs
  IN [reloadMs |-> reloadMs2, store |-> ~known \/ reset,
      errorPage |-> reloadMs2 > ErrorAfterMs]

(* renderReport, lines 880-917: a report file that is not JSON is an error, *)
(* any JSON object is rendered with reportTmpl.                            *)
renderReport(req, reportData) ==
  IF ~reportData.json
  THEN handleError("/report", req, "error", "")
  ELSE Response("/report", req, 200, Body("report", "", 0), "", req.id)

(* Server.handleReport, lines 827-878.                                     *)
handleReport(req, dir, rts, t) ==
  LET basename == req.id
      filename == TxtName(basename)
      known == basename \in DOMAIN rts
      d == backoff(known, IF known THEN rts[basename] ELSE 0, t)
      rts2 == IF d.store THEN Put(rts, basename, t) ELSE rts
  IN
  IF ~FileExists(dir, filename)
  THEN [reportTimestamp |-> rts2,
        resp |-> IF d.errorPage
                 THEN Response("/report", req, 200, Body("errorPage", "", 0), "", req.id)
                 ELSE Response("/report", req, 200, Body("wait", "", d.reloadMs), "", req.id)]
  ELSE [reportTimestamp |-> rts,
        resp |-> renderReport(req, (CHOOSE f \in dir : f.name = filename).content)]

(* Server.ListenForReports, lines 1343-1373: what one received message      *)
(* does to the upload directory.                                           *)
listenStepMutant(dir, m) ==
  IF ~m.json THEN dir
  ELSE IF ~Has(m.data, "submission_id") THEN dir
  ELSE WriteFile(dir, TxtName(m.data["submission_id"].s), m)

listenStep(dir, m) ==
  IF ~m.json THEN dir
  ELSE IF ~Has(m.data, "submission_id") THEN dir
  ELSE IF ~IsJStr(m.data["submission_id"]) THEN dir
  ELSE WriteFile(dir, TxtName(m.data["submission_id"].s), m)

(* worker.go run, lines 98-141: the report the worker posts for one        *)
(* received message, as a sequence of zero or one messages.                *)
workerReportMutant(g) ==
  IF g.job.err # "none" THEN <<>> ELSE << [json |-> TRUE, data |-> g.job.report] >>

workerReport(g) ==
  IF g.job.err = "plain" THEN <<>>
  ELSE IF g.job.err = "id"
  THEN << [json |-> TRUE,
           data |-> Put(Put(EmptyMap,
                      "submission_id", JStr(g.job.submissionID)),
                      "Report", JObj([report |-> "Checker Error",
                                      graded |-> FALSE, passed |-> FALSE])) ] >>
  ELSE << [json |-> TRUE, data |-> g.job.report] >>

----------------------------------------------------------------------------
(* The upload server, the queues, one worker and the report listener as a  *)
(* state machine.                                                          *)

Methods == {"POST", "GET", "OPTIONS"}
Cookies == {"none", "valid", "nohash", "undecodable"}
BodyLens == {maxUploadSize, maxUploadSize + 1}

MdAssignment == "assignment_id" :> JStr("a1")
GoodUpload ==
  Notebook(TRUE, TRUE, MdAssignment, TRUE,
           <<SubCell(TRUE, "exercise_id" :> JStr("e1"), Solved)>>)
UploadContents == {NotJSON, GoodUpload}
ServerEnvs == {[execOK |-> x, passed |-> TRUE] : x \in BOOLEAN}

(* The requests sent to /upload: every method, cookie and body length with *)
(* an otherwise well-formed form, and every form, broker, object store and *)
(* sandbox behaviour for a POST of a logged-in user within the size limit. *)
(* formLen <= bodyLen: the form ends where the body ends or before.        *)
WellFormed ==
  [method |-> "POST", cookie |-> "valid", bodyLen |-> maxUploadSize,
   formLen |-> maxUploadSize, hasPart |-> TRUE, content |-> GoodUpload, postOK |-> TRUE,
   bucketOK |-> TRUE, reportLogOK |-> TRUE, env |-> [execOK |-> TRUE, passed |-> TRUE]]
UploadRequests ==
  {r \in {[WellFormed EXCEPT !.method = m, !.cookie = c, !.bodyLen = n, !.formLen = k] :
     m \in Methods, c \in Cookies,
     n \in BodyLens, k \in BodyLens} : r.formLen <= r.bodyLen}
  \cup
  {[WellFormed EXCEPT !.hasPart = h, !.content = x, !.postOK = p,
                      !.bucketOK = k, !.reportLogOK = l, !.env = e] :
     h \in BOOLEAN, x \in UploadContents, p \in BOOLEAN, k \in BOOLEAN,
     l \in BOOLEAN, e \in ServerEnvs}

ReportIds == {Uuid(n) : n \in 1..MaxPolled}
NoTimestamps == [k \in {} |-> 0]

ServerInit ==
  /\ LastIdle
  /\ opts \in [UseOpenID : BOOLEAN, GradeLocally : BOOLEAN, LogToBucket : BOOLEAN]
  /\ uploadDir = {}
  /\ autogradeQ = <<>>
  /\ reportQ = <<>>
  /\ resp = NoResponse
  /\ accepted = {}
  /\ reportTimestamp = NoTimestamps
  /\ now = 0
  /\ ticks = 0
  /\ nextId = 1
  /\ workerMsg = <<>>
  /\ scratch = {}
  /\ autograder = [DisableCleanup |-> FALSE, AutoRemove |-> FALSE]
  /\ grading = IdleJob
  /\ AssignIdle
  /\ MoreIdle

(* One request to /upload, handled to the end.                             *)
HandleUpload ==
  /\ nextId <= MaxUploads
  /\ \E req \in UploadRequests :
       LET r == handleUpload(opts, req, uploadDir, Uuid(nextId), scratch,
                             autograder, now)
       IN /\ resp' = r.resp
          /\ uploadDir' = r.uploadDir
          /\ autogradeQ' = autogradeQ \o r.posted
          /\ nextId' = IF r.used THEN nextId + 1 ELSE nextId
          /\ scratch' = r.scratch
          /\ accepted' = IF r.resp.status = 200 /\ r.resp.id # ""
                         THEN accepted \cup {r.resp.id} ELSE accepted
  /\ UNCHANGED <<lastVars, opts, reportQ, reportTimestamp, now, ticks, workerMsg,
                 autograder, grading, assignVars, moreVars>>

(* One request to /report/<id>.                                            *)
HandleReport ==
  /\ \E id \in ReportIds :
       LET req == [method |-> "GET", cookie |-> "none", bodyLen |-> 0, formLen |-> 0,
                   id |-> id]
           r == handleReport(req, uploadDir, reportTimestamp, now)
       IN /\ resp' = r.resp
          /\ reportTimestamp' = r.reportTimestamp
  /\ UNCHANGED <<lastVars, opts, uploadDir, autogradeQ, reportQ, accepted, now, ticks,
                 nextId, workerMsg, scratch, autograder, grading, assignVars, moreVars>>

(* Time passes.                                                            *)
TickSteps == {1, ErrorAfterMs}
Tick ==
  /\ ticks < MaxTicks
  /\ \E d \in TickSteps : now' = now + d
  /\ ticks' = ticks + 1
  /\ UNCHANGED <<lastVars, opts, uploadDir, autogradeQ, reportQ, resp, accepted,
                 reportTimestamp, nextId, workerMsg, scratch, autograder, grading, assignVars, moreVars>>

(* The worker takes the next message off the autograde queue (auto-ack).   *)
WorkerReceive ==
  /\ workerMsg = <<>>
  /\ autogradeQ # <<>>
  /\ workerMsg' = <<Head(autogradeQ)>>
  /\ autogradeQ' = Tail(autogradeQ)
  /\ UNCHANGED <<lastVars, opts, uploadDir, reportQ, resp, accepted, reportTimestamp,
                 now, ticks, nextId, scratch, autograder, grading, assignVars, moreVars>>

(* The worker grades the message and posts what workerReport says.         *)
WorkerGrade ==
  /\ workerMsg # <<>>
  /\ \E env \in ServerEnvs :
       LET g == Grade(autograder, workerMsg[1], env, now \div 1000, scratch)
       IN /\ reportQ' = reportQ \o workerReport(g)
          /\ scratch' = g.scratch
  /\ workerMsg' = <<>>
  /\ UNCHANGED <<lastVars, opts, uploadDir, autogradeQ, resp, accepted, reportTimestamp,
                 now, ticks, nextId, autograder, grading, assignVars, moreVars>>

(* The same, with q.Post failing: the error is logged, the report lost.    *)
WorkerGradePostFails ==
  /\ workerMsg # <<>>
  /\ \E env \in ServerEnvs :
       scratch' = Grade(autograder, workerMsg[1], env, now \div 1000, scratch).scratch
  /\ workerMsg' = <<>>
  /\ UNCHANGED <<lastVars, opts, uploadDir, autogradeQ, reportQ, resp, accepted,
                 reportTimestamp, now, ticks, nextId, autograder, grading, assignVars, moreVars>>

(* The listener goroutine handles the next report message.                 *)
ListenForReports ==
  /\ ~opts.GradeLocally
  /\ reportQ # <<>>
  /\ uploadDir' = listenStep(uploadDir, Head(reportQ))
  /\ reportQ' = Tail(reportQ)
  /\ UNCHANGED <<lastVars, opts, autogradeQ, resp, accepted, reportTimestamp, now,
                 ticks, nextId, workerMsg, scratch, autograder, grading, assignVars, moreVars>>

vars == <<opts, uploadDir, autogradeQ, reportQ, resp, accepted,
          reportTimestamp, now, ticks, nextId, workerMsg, scratch,
          autograder, grading, master, conv, written, trip,
          session, posting, script, pool, retry, unitTest, running>>

ServerNext ==
  \/ HandleUpload
  \/ WorkerReceive
  \/ WorkerGrade
  \/ WorkerGradePostFails
  \/ ListenForReports

SpecServer == ServerInit /\ [][ServerNext]_vars

(* The asynchronous pipeline with a broker that delivers every message and *)
(* a worker and a listener that keep running: q.Post of the worker does    *)
(* not fail, and each loop is scheduled whenever it has something to do.   *)
LiveNext ==
  \/ HandleUpload
  \/ WorkerReceive
  \/ WorkerGrade
  \/ ListenForReports

SpecLive ==
  /\ ServerInit
  /\ [][LiveNext]_vars
  /\ WF_vars(WorkerReceive)
  /\ WF_vars(WorkerGrade)
  /\ WF_vars(ListenForReports)

(* Polling /report/<id> over time.  The server starts with an empty upload *)
(* directory; a report for the first id may be on the report queue.        *)
PendingReport ==
  [json |-> TRUE,
   data |-> Put(Put(EmptyMap, "submission_id", JStr(Uuid(1))),
                "e1", JObj([report |-> "report of e1", graded |-> TRUE,
                            passed |-> TRUE]))]

ReportInit ==
  /\ LastIdle
  /\ opts = [UseOpenID |-> FALSE, GradeLocally |-> FALSE, LogToBucket |-> FALSE]
  /\ uploadDir = {}
  /\ autogradeQ = <<>>
  /\ reportQ \in {<<>>, <<PendingReport>>}
  /\ resp = NoResponse
  /\ accepted = {}
  /\ reportTimestamp = NoTimestamps
  /\ now = 0
  /\ ticks = 0
  /\ nextId = 1
  /\ workerMsg = <<>>
  /\ scratch = {}
  /\ autograder = [DisableCleanup |-> FALSE, AutoRemove |-> FALSE]
  /\ grading = IdleJob
  /\ AssignIdle
  /\ MoreIdle

ReportNext ==
  \/ HandleReport
  \/ Tick
  \/ ListenForReports

SpecReport == ReportInit /\ [][ReportNext]_vars

----------------------------------------------------------------------------
(* Properties of the upload server.                                        *)

IpynbFiles(dir) == {f \in dir : \E n \in 1..MaxUploads : f.name = IpynbName(Uuid(n))}

(* C2: in asynchronous mode, with a broker that delivers and a worker that *)
(* keeps running, every upload answered with 200 for id s is eventually    *)
(* followed by <upload_dir>/s.txt being written, and from then on          *)
(* GET /report/s serves a report and not the waiting page.                 *)
ReportServed(id) ==
  /\ FileExists(uploadDir, TxtName(id))
  /\ handleReport([method |-> "GET", cookie |-> "none", bodyLen |-> 0,
                   formLen |-> 0, id |-> id],
                  uploadDir, reportTimestamp, now).resp.body.kind = "report"
C2_Formula ==
  \A n \in 1..MaxUploads :
    (~opts.GradeLocally /\ Uuid(n) \in accepted) ~> [] ReportServed(Uuid(n))

(* C2 witness: an accepted asynchronous upload whose grading failed with   *)
(* an id-carrying error has the worker's synthetic report as its s.txt.    *)
C2_Witness ==
  /\ ~opts.GradeLocally
  /\ Uuid(1) \in accepted
  /\ \E f \in uploadDir : f.name = TxtName(Uuid(1)) /\ Has(f.content.data, "Report")

(* C4, as claimed: with authentication on, a POST /upload without a valid  *)
(* session hash is answered 401 with a link to /login, writes no file and  *)
(* posts nothing.                                                          *)
C4_Claim ==
  [][ (HandleUpload /\ opts.UseOpenID /\ resp'.method = "POST"
         /\ resp'.cookie # "valid")
      => /\ resp'.status = 401
         /\ resp'.body = Body("login", "/login", 0)
         /\ uploadDir' = uploadDir
         /\ autogradeQ' = autogradeQ ]_vars

(* C5, as claimed: an upload whose body is larger than 1 MiB is answered   *)
(* with a 5xx status and writes no submission file.                       *)
C5_Claim ==
  [][ (HandleUpload /\ resp'.method = "POST" /\ resp'.bodyLen > 1048576)
      => /\ resp'.status \in 500..599
         /\ uploadDir' = uploadDir ]_vars

(* C5, amended: a POST /upload whose form does not end within the first    *)
(* 1 MiB of the body writes no submission file; it is answered 401 when    *)
(* authentication is on and the session has no user hash, and 500          *)
(* otherwise.                                                              *)
C5_Formula ==
  [][ (HandleUpload /\ resp'.method = "POST" /\ resp'.formLen > 1048576)
      => /\ resp'.status = IF opts.UseOpenID /\ resp'.cookie \in {"none", "nohash"}
                           THEN 401 ELSE 500
         /\ uploadDir' = uploadDir
         /\ autogradeQ' = autogradeQ ]_vars

(* C5 witness: an oversized POST of a logged-in user was answered 500.     *)
C5_Witness ==
  /\ resp.path = "/upload" /\ resp.method = "POST"
  /\ resp.formLen > 1048576 /\ resp.cookie = "valid"
  /\ resp.status = 500
  /\ IpynbFiles(uploadDir) = {}

(* C6, as claimed: a successful upload has the text /report/<id> as its    *)
(* body and the same value in X-Report-Url.                                *)
C6_Claim ==
  (resp.path = "/upload" /\ resp.method = "POST" /\ resp.status = 200)
  => /\ resp.body = Body("text", "/report/" \o resp.id, 0)
     /\ resp.xReportUrl = "/report/" \o resp.id

(* C6, amended: a successful upload has X-Report-Url: /report/<id>, where  *)
(* <id>.ipynb is the stored submission; its body is an HTML page, in       *)
(* asynchronous mode the page linking to /report/<id>, in combined mode    *)
(* the rendered report.                                                    *)
C6_Formula ==
  (resp.path = "/upload" /\ resp.method = "POST" /\ resp.status = 200)
  => /\ resp.xReportUrl = "/report/" \o resp.id
     /\ FileExists(uploadDir, resp.id \o ".ipynb")
     /\ resp.body = IF opts.GradeLocally THEN Body("report", "", 0)
                    ELSE Body("uploadResult", "/report/" \o resp.id, 0)

(* C6 witness: the second upload was accepted in asynchronous mode.        *)
C6_Witness ==
  /\ resp.path = "/upload" /\ resp.method = "POST" /\ resp.status = 200
  /\ resp.id = Uuid(2)
  /\ ~opts.GradeLocally

(* The last request was an upload that fails for no reason other than the  *)
(* object store: bucket logging is on, the request passes authentication,  *)
(* carries a well-formed notebook within the size limit, the broker and    *)
(* the sandbox work, and the object store refuses a log the handler tries  *)
(* to write (the log of the report is written in combined mode only).      *)
BucketFailed ==
  /\ resp.path = "/upload" /\ resp.method = "POST"
  /\ opts.LogToBucket
  /\ opts.UseOpenID => resp.cookie = "valid"
  /\ resp.formLen <= maxUploadSize
  /\ resp.req.hasPart /\ resp.req.content = GoodUpload
  /\ resp.req.postOK /\ resp.req.env.execOK
  /\ ~resp.req.bucketOK \/ (opts.GradeLocally /\ ~resp.req.reportLogOK)

(* C14, as claimed: when bucket logging is on and the object store fails,  *)
(* the upload is still answered with 200 and the submission is still       *)
(* graded: accepted for the queue in asynchronous mode, its report written *)
(* in combined mode.                                                       *)
C14_Claim ==
  BucketFailed
  => /\ resp.status = 200
     /\ resp.id \in accepted
     /\ opts.GradeLocally => FileExists(uploadDir, TxtName(resp.id))

(* C7: polling /report/<id> while <id>.txt does not exist: the first       *)
(* request stores the time and reloads after 500 ms; e ms after the stored *)
(* time the page reloads after e if e <= 10000, is the error page if       *)
(* 10000 < e <= 20000, and if e > 20000 the stored time becomes now and    *)
(* the page reloads after 500 ms.                                          *)
C7_Formula ==
  [][ (HandleReport /\ ~FileExists(uploadDir, resp'.id \o ".txt"))
      => LET id == resp'.id
             e == now - reportTimestamp[id]
         IN IF id \notin DOMAIN reportTimestamp
            THEN /\ reportTimestamp' = Put(reportTimestamp, id, now)
                 /\ resp'.body = Body("wait", "", 500)
            ELSE /\ e <= 10000
                    => /\ resp'.body = Body("wait", "", e)
                       /\ reportTimestamp' = reportTimestamp
                 /\ (10000 < e /\ e <= 20000)
                    => /\ resp'.body = Body("errorPage", "", 0)
                       /\ reportTimestamp' = reportTimestamp
                 /\ e > 20000
                    => /\ resp'.body = Body("wait", "", 500)
                       /\ reportTimestamp' = Put(reportTimestamp, id, now) ]_vars

(* C7 witness: a poll more than 20 s after the first one has reset the     *)
(* stored time and serves the waiting page again.                          *)
C7_Witness ==
  /\ resp.path = "/report" /\ resp.body = Body("wait", "", 500)
  /\ now > 20000
  /\ resp.id \in DOMAIN reportTimestamp /\ reportTimestamp[resp.id] = now

----------------------------------------------------------------------------
(* Autograder.Grade on its own: one call, step by step, for a bounded set  *)
(* of submissions, every combination of the flags, and a scratch root that *)
(* is empty or still holds the directory of an earlier run for the same id. *)
MaxCells == 2

MdBase ==
  ("submission_id" :> JStr("s1")) @@ ("assignment_id" :> JStr("a1"))
  @@ ("user_hash" :> JStr("h"))
Without(m, k) == [x \in (DOMAIN m) \ {k} |-> m[x]]
GradeMetadata ==
  { MdBase,
    Without(MdBase, "submission_id"), Put(MdBase, "submission_id", JNum(7)),
    Without(MdBase, "assignment_id"), Put(MdBase, "assignment_id", JNum(7)),
    Put(MdBase, "assignment_id", JStr("README")),
    Put(MdBase, "assignment_id", JStr("zz")),
    Without(MdBase, "user_hash"), Put(MdBase, "user_hash", JNum(7)),
    Put(MdBase, "requested_exercise_id", JStr("e1")),
    Put(MdBase, "requested_exercise_id", JStr("submission_id")) }
GradeCells ==
  { SubCell(FALSE, EmptyMap, Solved),
    SubCell(TRUE, EmptyMap, Solved),
    SubCell(TRUE, "exercise_id" :> JNum(7), Solved),
    SubCell(TRUE, "exercise_id" :> JStr("zz"), Solved),
    SubCell(TRUE, "exercise_id" :> JStr("notes.txt"), Solved),
    SubCell(TRUE, "exercise_id" :> JStr("e1"), Solved),
    SubCell(TRUE, "exercise_id" :> JStr("e1"), Prompt),
    SubCell(TRUE, "exercise_id" :> JStr("submission_id"), Solved) }
CellSeqs == UNION {[1..n -> GradeCells] : n \in 0..MaxCells}
GradeInputs ==
  { NotJSON,
    Notebook(FALSE, FALSE, EmptyMap, TRUE, <<>>),
    Notebook(TRUE, FALSE, EmptyMap, TRUE, <<>>),
    Notebook(TRUE, TRUE, MdBase, FALSE, <<>>) }
  \cup {Notebook(TRUE, TRUE, md, TRUE, cs) : md \in GradeMetadata, cs \in CellSeqs}

Envs == [execOK : BOOLEAN, passed : BOOLEAN]

(* What a run with DisableCleanup left under the scratch root for s1. *)
Leftovers ==
  {<<"s1">>, <<"s1", "zz">>, <<"s1", "zz", "submission.py">>, <<"s1", "core">>}

GradeInit ==
  /\ LastIdle
  /\ opts = [UseOpenID |-> FALSE, GradeLocally |-> TRUE, LogToBucket |-> FALSE]
  /\ uploadDir = {}
  /\ autogradeQ = <<>>
  /\ reportQ = <<>>
  /\ resp = NoResponse
  /\ accepted = {}
  /\ reportTimestamp = NoTimestamps
  /\ now = 0
  /\ ticks = 0
  /\ nextId = 1
  /\ workerMsg = <<>>
  /\ scratch \in {{}, {<<"s1">>, <<"s1", "e1">>, <<"s1", "e1", "submission.py">>},
                  Leftovers}
  /\ autograder \in [DisableCleanup : BOOLEAN, AutoRemove : BOOLEAN]
  /\ grading = IdleJob
  /\ AssignIdle
  /\ MoreIdle

(* Grade is called: lines 207-292.                                         *)
GradeBegin ==
  /\ grading.pc = "idle"
  /\ \E b \in GradeInputs :
       \E r \in {GradeProlog(autograder, b, scratch)} :
         /\ grading' = r.job
         /\ scratch' = r.scratch
  /\ UNCHANGED <<lastVars, serverVars, autograder, assignVars, moreVars>>

(* One iteration of the loop over the cells: lines 295-330.                *)
GradeIteration ==
  /\ grading.pc = "loop"
  /\ grading.i <= Len(grading.nb.cells)
  /\ \E env \in Envs :
       \E r \in {GradeCell(autograder, grading, env, scratch)} :
         /\ grading' = r.job
         /\ scratch' = r.scratch
  /\ UNCHANGED <<lastVars, serverVars, autograder, assignVars, moreVars>>

(* The loop is over and Grade returns the report: lines 331-343.           *)
GradeReturn ==
  /\ grading.pc = "loop"
  /\ grading.i > Len(grading.nb.cells)
  /\ \E r \in {GradeEpilog(autograder, grading, now \div 1000, scratch)} :
       /\ grading' = r.job
       /\ scratch' = r.scratch
  /\ UNCHANGED <<lastVars, serverVars, autograder, assignVars, moreVars>>

GradeNext ==
  \/ GradeBegin
  \/ GradeIteration
  \/ GradeReturn

SpecGrade == GradeInit /\ [][GradeNext]_vars

(* C1: whenever Grade returns a report for a notebook whose                *)
(* metadata.submission_id is the string s, the report is an object whose   *)
(* submission_id is s, whatever exercises were graded.                     *)
C1_Formula ==
  (grading.pc = "done" /\ grading.err = "none")
  => /\ Has(grading.report, "submission_id")
     /\ grading.report["submission_id"] = grading.nb.metadata["submission_id"]
     /\ grading.report["submission_id"].t = "string"

(* C1 witness: a report was returned for a notebook with a graded exercise *)
(* whose id is "submission_id".                                            *)
C1_Witness ==
  /\ grading.pc = "done" /\ grading.err = "none"
  /\ Has(grading.result, "submission_id")
  /\ grading.report["submission_id"] = JStr("s1")

(* C3: when the solution cell equals the exercise's empty_submission.py,   *)
(* GradeExercise returns a report containing "empty submission", starts no *)
(* process and puts nothing into the scratch directory.                    *)
C3_Formula ==
  grading.call.empty
  => /\ Contains(grading.call.outcome.report, "empty submission")
     /\ grading.call.procs = {}
     /\ ~grading.call.populated

(* C3 witness: e1 was submitted unchanged and the report was returned.     *)
C3_Witness ==
  /\ grading.pc = "done" /\ grading.err = "none"
  /\ grading.call.empty /\ grading.call.exercise = "e1"
  /\ Has(grading.report, "e1")
  /\ Contains(grading.report["e1"].o.report, "empty submission")

(* The input of the call has a metadata map with a string submission_id.   *)
HasSubmissionID(b) ==
  /\ b.json /\ b.hasMeta /\ b.metaIsMap
  /\ Has(b.metadata, "submission_id") /\ IsJStr(b.metadata["submission_id"])
(* The paths at or under <scratch root>/<id>.                              *)
Under(sc, id) == {q \in sc : IsPrefix(<<id>>, q)}

(* C11: when Grade returns an error for an input whose metadata is a map   *)
(* with the string submission_id s, the error is an ErrorWithId whose      *)
(* SubmissionID is s; for every other input Grade returns an error         *)
(* without an id.                                                          *)
C11_Formula ==
  grading.pc = "done"
  => IF HasSubmissionID(grading.nb)
     THEN grading.err # "none"
          => /\ grading.err = "id"
             /\ grading.submissionID = grading.nb.metadata["submission_id"].s
     ELSE grading.err = "plain"

(* C11 witness: an exercise failed after the scratch directory was made,   *)
(* and the error carries the id s1.                                        *)
C11_Witness ==
  /\ grading.pc = "done" /\ grading.err = "id" /\ grading.created
  /\ grading.call.populated
  /\ grading.submissionID = "s1"
  /\ grading.nb.metadata["submission_id"] = JStr("s1")

(* C12: the step in which Grade starts with <scratch root>/<id> already    *)
(* there grades no exercise; with AutoRemove off it returns an error       *)
(* carrying the id and leaves the scratch root as it was; with AutoRemove  *)
(* on, when it goes on to the exercises, nothing is left at or under the   *)
(* directory but the freshly made directory itself.                        *)
C12_Step ==
  (/\ grading.pc = "idle" /\ grading'.pc # "idle"
   /\ HasSubmissionID(grading'.nb)
   /\ <<grading'.nb.metadata["submission_id"].s>> \in scratch)
  => /\ grading'.procs = {}
     /\ grading'.call = IdleJob.call
     /\ grading'.result = EmptyMap
     /\ ~autograder.AutoRemove
        => /\ grading'.pc = "done" /\ grading'.err = "id"
           /\ grading'.submissionID = grading'.nb.metadata["submission_id"].s
           /\ scratch' = scratch
     /\ autograder.AutoRemove
        => /\ grading'.pc = "done" => grading'.err = "id"
           /\ grading'.pc # "done"
              => Under(scratch', grading'.submissionID) = {<<grading'.submissionID>>}
C12_Formula == [][C12_Step]_vars

(* C12 witness: AutoRemove is off, the notebook is one that could be       *)
(* graded, Grade has returned an error with the id without making the      *)
(* directory, and what the earlier run left is still there.                *)
C12_Witness ==
  /\ ~autograder.AutoRemove
  /\ grading.pc = "done" /\ grading.err = "id" /\ ~grading.created
  /\ grading.assignmentID = "a1" /\ grading.nb.parses
  /\ Len(grading.nb.cells) > 0
  /\ scratch = Leftovers

(* C13: when Grade has returned after making <scratch root>/<id>, with     *)
(* DisableCleanup off nothing exists at or under that directory, and with  *)
(* DisableCleanup on the directory exists.                                 *)
C13_Formula ==
  (grading.pc = "done" /\ grading.created)
  => IF autograder.DisableCleanup
     THEN <<grading.submissionID>> \in scratch
     ELSE Under(scratch, grading.submissionID) = {}

(* C13 witness: GradeExercise filled the scratch directory and failed,     *)
(* Grade returned the error, and the directory is gone.                    *)
C13_Witness ==
  /\ grading.pc = "done" /\ grading.created /\ grading.err = "id"
  /\ grading.call.populated
  /\ ~autograder.DisableCleanup
  /\ Under(scratch, "s1") = {}

----------------------------------------------------------------------------
(* Notebook sources are strings; the regular expressions of notebook.go    *)
(* are operators on them.  Positions are 1-based; a match is the record    *)
(* [from, to] of its first position and of the position after its last,    *)
(* and NoMatch when there is none.                                         *)
NoMatch == [from |-> 0, to |-> 0]
IsMatch(m) == m.from > 0
Char(s, i) == SubSeq(s, i, i)
From(s, i) == SubSeq(s, i, Len(s))
Upto(s, i) == SubSeq(s, 1, i - 1)
StartsAt(s, i, p) == i + Len(p) - 1 <= Len(s) /\ SubSeq(s, i, i + Len(p) - 1) = p
Min(S) == CHOOSE x \in S : \A y \in S : x <= y

Blanks == {" ", "\t"}
Letters == {"a", "b", "c", "d", "e", "f", "g", "h", "i", "j", "k", "l", "m", "n",
            "o", "p", "q", "r", "s", "t", "u", "v", "w", "x", "y", "z",
            "A", "B", "C", "D", "E", "F", "G", "H", "I", "J", "K", "L", "M", "N",
            "O", "P", "Q", "R", "S", "T", "U", "V", "W", "X", "Y", "Z"}
Digits == {"0", "1", "2", "3", "4", "5", "6", "7", "8", "9"}

(* The position after the longest run of characters of cs that starts at i. *)
SkipWhile(s, i, cs) ==
  Min({j \in i..(Len(s) + 1) : j = Len(s) + 1 \/ Char(s, j) \notin cs})
(* The position of the first "\n" at or after i, or Len(s) + 1: [^\n]*.     *)
LineEnd(s, i) ==
  Min({j \in i..(Len(s) + 1) : j = Len(s) + 1 \/ Char(s, j) = "\n"})
(* (?m)^ : the positions where a line starts.                              *)
LineStarts(s) == {i \in 1..(Len(s) + 1) : i = 1 \/ Char(s, i - 1) = "\n"}
(* The leftmost of the matches; f maps start positions to matches.         *)
FirstAt(f, hits) == IF hits = {} THEN NoMatch ELSE f[Min(hits)]
FirstMatch(f) == FirstAt(f, {i \in DOMAIN f : IsMatch(f[i])})
(* The first position at or after i where p occurs, or 0.                  *)
MinOrZero(hits) == IF hits = {} THEN 0 ELSE Min(hits)
IndexFrom(s, i, p) == MinOrZero({j \in i..Len(s) : StartsAt(s, j, p)})

(* ^[ \t]*<marker> at the line start i.                                    *)
MarkerFrom(s, i, j, marker) ==
  IF StartsAt(s, j, marker) THEN [from |-> i, to |-> j + Len(marker)] ELSE NoMatch
MarkerAt(s, i, marker) == MarkerFrom(s, i, SkipWhile(s, i, Blanks), marker)
(* ^[ \t]*<marker> * at the line start i.                                  *)
SpacesAfter(s, m) ==
  IF IsMatch(m) THEN [from |-> m.from, to |-> SkipWhile(s, m.to, {" "})] ELSE NoMatch
MarkerSpacesAt(s, i, marker) == SpacesAfter(s, MarkerAt(s, i, marker))
(* ^[ \t]*<marker> *\n at the line start i.                                *)
LineClosed(s, m) ==
  IF IsMatch(m) /\ StartsAt(s, m.to, "\n") THEN [from |-> m.from, to |-> m.to + 1]
  ELSE NoMatch
MarkerLineAt(s, i, marker) == LineClosed(s, MarkerSpacesAt(s, i, marker))

(* Blanks and then a name, a letter followed by letters, digits and "_",  *)
(* from position j on: the positions where the name starts and ends, or    *)
(* NoMatch.                                                                *)
NameChars == Letters \cup Digits \cup {"_"}
NameFrom(s, j, k) ==
  IF k > j /\ k <= Len(s) /\ Char(s, k) \in Letters
  THEN [from |-> k, to |-> SkipWhile(s, k + 1, NameChars)]
  ELSE NoMatch
NameAfter(s, j) == NameFrom(s, j, SkipWhile(s, j, Blanks))
NoName == [from |-> 0, to |-> 0, name |-> ""]
Named(s, i, n, to) == [from |-> i, to |-> to, name |-> SubSeq(s, n.from, n.to - 1)]

(* ^[ \t]*#? ?%%<magic>[ \t]+<Name>[ \t]*[\n]* at the line start i.         *)
SkipOne(s, j, c) == IF StartsAt(s, j, c) THEN j + 1 ELSE j
NamedMagicName(s, i, n) ==
  IF IsMatch(n) THEN Named(s, i, n, SkipWhile(s, SkipWhile(s, n.to, Blanks), {"\n"}))
  ELSE NoName
NamedMagicFrom(s, i, j, magic) ==
  IF StartsAt(s, j, magic) THEN NamedMagicName(s, i, NameAfter(s, j + Len(magic)))
  ELSE NoName
NamedMagicAt(s, i, magic) ==
  NamedMagicFrom(s, i, SkipOne(s, SkipOne(s, SkipWhile(s, i, Blanks), "#"), " "), magic)

(* The regular expressions, lines 245-268.  Each Find operator is          *)
(* FindStringIndex (the leftmost match), each Has operator MatchString.    *)
TestMarkerFrom(s, m) ==
  IF IsMatch(m) THEN [from |-> m.from, to |-> SkipWhile(s, LineEnd(s, m.to), {"\n"})]
  ELSE NoMatch
FindTestMarker(s) ==
  FirstMatch([i \in LineStarts(s) |-> TestMarkerFrom(s, MarkerAt(s, i, "# TEST"))])
FindStudentTest(s) ==
  FirstMatch([i \in LineStarts(s) |-> NamedMagicAt(s, i, "%%studenttest")])
FindInlineTest(s) ==
  FirstMatch([i \in LineStarts(s) |-> NamedMagicAt(s, i, "%%inlinetest")])
(* solutionMagicRegex has no (?m): it matches at the start of the text only. *)
MagicEnd(s, e) == IF e <= Len(s) THEN [from |-> 1, to |-> e + 1] ELSE NoMatch
MagicLine(s, m) == IF IsMatch(m) THEN MagicEnd(s, LineEnd(s, m.to)) ELSE NoMatch
FindSolutionMagic(s) == MagicLine(s, MarkerAt(s, 1, "%%solution"))
EitherMatch(m1, m2) == IF IsMatch(m1) THEN m1 ELSE m2
PromptBeginAt(s, i) ==
  EitherMatch(MarkerLineAt(s, i, "\"\"\" # BEGIN PROMPT"),
              MarkerLineAt(s, i, "# BEGIN PROMPT"))
FindPromptBegin(s) == FirstMatch([i \in LineStarts(s) |-> PromptBeginAt(s, i)])
(* promptEndRegex starts with the "\n" that ends the line before.           *)
PromptEndFrom(i, m) == IF IsMatch(m) THEN [from |-> i, to |-> m.to] ELSE NoMatch
PromptEndAt(s, i) ==
  IF ~StartsAt(s, i, "\n") THEN NoMatch
  ELSE PromptEndFrom(i, EitherMatch(MarkerLineAt(s, i + 1, "\"\"\" # END PROMPT"),
                                    MarkerLineAt(s, i + 1, "# END PROMPT")))
FindPromptEnd(s) == FirstMatch([i \in 1..Len(s) |-> PromptEndAt(s, i)])

(* FindAll...Index: the matches in the order of their positions.           *)
RECURSIVE SortedSeq(_)
SortedSeq(S) == IF S = {} THEN <<>> ELSE <<Min(S)>> \o SortedSeq(S \ {Min(S)})
AllAt(f, at) == [k \in DOMAIN at |-> f[at[k]]]
AllMatches(f) == AllAt(f, SortedSeq({i \in DOMAIN f : IsMatch(f[i])}))
WithIndent(s, i, m) ==
  [from |-> m.from, to |-> m.to, indent |-> SubSeq(s, i, SkipWhile(s, i, Blanks) - 1)]
SolutionBeginAt(s, i) == WithIndent(s, i, MarkerLineAt(s, i, "# BEGIN SOLUTION"))
FindAllSolutionBegin(s) == AllMatches([i \in LineStarts(s) |-> SolutionBeginAt(s, i)])
FindAllSolutionEnd(s) ==
  AllMatches([i \in LineStarts(s) |-> MarkerSpacesAt(s, i, "# END SOLUTION")])

HasUnittestBegin(s) == \E i \in LineStarts(s) : IsMatch(MarkerLineAt(s, i, "# BEGIN UNITTEST"))
HasAutotestMarker(s) == Contains(s, "%autotest") \/ Contains(s, "autotest(")
HasSubmissionMarker(s) ==
  \E i \in LineStarts(s) :
    IsMatch(MarkerAt(s, i, "%%submission")) \/ IsMatch(MarkerAt(s, i, "%%solution"))
HasTemplateOrReportMarker(s) ==
  \/ \E i \in LineStarts(s) :
       IsMatch(MarkerAt(s, i, "%%template")) \/ IsMatch(MarkerAt(s, i, "%%report"))
  \/ Contains(s, "report(")
(* ^[ \t]*#+ MASTER ONLY                                                   *)
MasterOnlyAfter(s, j, k) == k > j /\ StartsAt(s, k, " MASTER ONLY")
MasterOnlyFrom(s, j) == MasterOnlyAfter(s, j, SkipWhile(s, j, {"#"}))
HasMasterOnlyMarker(s) ==
  \E i \in LineStarts(s) : MasterOnlyFrom(s, SkipWhile(s, i, Blanks))
(* The cells ToStudent drops, lines 566-573.                               *)
IsMasterOnlyCode(s) ==
  \/ HasUnittestBegin(s)
  \/ HasAutotestMarker(s)
  \/ HasSubmissionMarker(s)
  \/ HasTemplateOrReportMarker(s)
  \/ HasMasterOnlyMarker(s)
(* source[:m[0]] + source[m[1]:]                                           *)
Remove(s, m) == Upto(s, m.from) \o From(s, m.to)

(* tripleBacktickedRegex.FindAllStringIndex: a block opens with three     *)
(* backticks at a line start and closes at the next three backticks, which *)
(* must be at a line start too.  A string of this module cannot hold a     *)
(* backtick: the sources write the character as an apostrophe.             *)
Fence == "'''"
FenceOpens(s, pos) ==
  {i \in LineStarts(s) :
     /\ i >= pos
     /\ StartsAt(s, i, Fence)
     /\ IndexFrom(s, i + 3, Fence) \in LineStarts(s)}
RECURSIVE FencedBlocks(_, _)
FencedBlock(s, i, j) == <<[from |-> i, to |-> j + 3]>> \o FencedBlocks(s, j + 3)
FencedFrom(s, opens) ==
  IF opens = {} THEN <<>>
  ELSE FencedBlock(s, Min(opens), IndexFrom(s, Min(opens) + 3, Fence))
FencedBlocks(s, pos) == FencedFrom(s, FenceOpens(s, pos))
(* source[m[0]+3 : m[1]-3]                                                 *)
BlockText(s, m) == SubSeq(s, m.from + 3, m.to - 4)

(* hasMetadata, lines 272-283; marker is "# ASSIGNMENT METADATA" or         *)
(* "# EXERCISE METADATA".                                                  *)
MatchesMetadata(text, marker) ==
  \E i \in LineStarts(text) : IsMatch(MarkerAt(text, i, marker))
AnyMetadata(marker, source, mm) ==
  \E k \in DOMAIN mm : MatchesMetadata(BlockText(source, mm[k]), marker)
hasMetadata(marker, source) == AnyMetadata(marker, source, FencedBlocks(source, 1))

(* yaml.Unmarshal of a metadata block into a map: comment lines and empty  *)
(* lines are skipped, a line "key: value" is an entry, any other line is   *)
(* an error.  Values are kept as their text.                               *)
RECURSIVE Lines(_, _)
Lines(s, pos) ==
  IF pos > Len(s) THEN <<>>
  ELSE <<SubSeq(s, pos, LineEnd(s, pos) - 1)>> \o Lines(s, LineEnd(s, pos) + 1)
YamlPair(line, c) ==
  IF line = "" \/ StartsAt(line, SkipWhile(line, 1, Blanks), "#")
  THEN [ok |-> TRUE, has |-> FALSE, key |-> "", value |-> ""]
  ELSE IF c > 1
  THEN [ok |-> TRUE, has |-> TRUE, key |-> Upto(line, c), value |-> From(line, c + 2)]
  ELSE [ok |-> FALSE, has |-> FALSE, key |-> "", value |-> ""]
YamlEntry(line) == YamlPair(line, IndexFrom(line, 1, ": "))
YamlLast(es, key) ==
  CHOOSE k \in DOMAIN es :
    /\ es[k].has /\ es[k].key = key
    /\ \A x \in DOMAIN es : (es[x].has /\ es[x].key = key) => x <= k
YamlMap(es) ==
  [ok |-> \A k \in DOMAIN es : es[k].ok,
   metadata |-> [key \in {es[k].key : k \in {x \in DOMAIN es : es[x].has}} |->
                   es[YamlLast(es, key)].value]]
YamlEntries(lines) == [k \in DOMAIN lines |-> YamlEntry(lines[k])]
yamlUnmarshal(text) == YamlMap(YamlEntries(Lines(text, 1)))

(* extractMetadata, lines 304-330.  Result: err, whether a metadata block  *)
(* was found (metadata is nil otherwise), the metadata, the new source.    *)
(* extractBlock is the loop body for block i: isMeta tells whether the     *)
(* block matches the marker, y is its parsed text, rest the result for the *)
(* blocks after it.                                                        *)
extractBlock(source, mm, i, isMeta, y, rest) ==
  IF isMeta /\ ~y.ok
  THEN [err |-> TRUE, found |-> FALSE, metadata |-> NoMetadata, newSource |-> ""]
  ELSE IF rest.err THEN rest
  ELSE [err |-> FALSE,
        found |-> isMeta \/ rest.found,
        metadata |-> IF rest.found THEN rest.metadata
                     ELSE IF isMeta THEN y.metadata ELSE NoMetadata,
        newSource |-> (IF i = 1 THEN Upto(source, mm[i].from) ELSE "")
                      \o (IF isMeta THEN "" ELSE SubSeq(source, mm[i].from, mm[i].to - 1))
                      \o (IF i < Len(mm) THEN SubSeq(source, mm[i].to, mm[i + 1].from - 1)
                          ELSE From(source, mm[i].to))
                      \o rest.newSource]
RECURSIVE extractLoop(_, _, _, _)
extractLoop(marker, source, mm, i) ==
  IF i > Len(mm)
  THEN [err |-> FALSE, found |-> FALSE, metadata |-> NoMetadata, newSource |-> ""]
  ELSE extractBlock(source, mm, i,
                    MatchesMetadata(BlockText(source, mm[i]), marker),
                    yamlUnmarshal(BlockText(source, mm[i])),
                    extractLoop(marker, source, mm, i + 1))
extractMetadata(marker, source) == extractLoop(marker, source, FencedBlocks(source, 1), 1)

(* Language.filterText, lines 353-372; lang is "en", "ja" or "" for        *)
(* AnyLanguage.  languageMetadataRegex matches a tag: two stars, "lang:",  *)
(* two lower-case letters, two stars.                                      *)
LowerCase == {"a", "b", "c", "d", "e", "f", "g", "h", "i", "j", "k", "l", "m",
              "n", "o", "p", "q", "r", "s", "t", "u", "v", "w", "x", "y", "z"}
LangTagAt(s, i) ==
  /\ StartsAt(s, i, "**lang:")
  /\ StartsAt(s, i + 9, "**")
  /\ Char(s, i + 7) \in LowerCase /\ Char(s, i + 8) \in LowerCase
LangTags(s) == {i \in 1..Len(s) : LangTagAt(s, i)}
RECURSIVE RemoveLangTags(_)
RemoveTagAt(s, hits) ==
  IF hits = {} THEN s
  ELSE Upto(s, Min(hits)) \o RemoveLangTags(From(s, Min(hits) + 11))
RemoveLangTags(s) == RemoveTagAt(s, LangTags(s))
filterTags(lang, s, hits) ==
  IF lang = "" THEN RemoveLangTags(s)
  ELSE IF hits = {} THEN s
  ELSE IF SubSeq(s, Min(hits) + 7, Min(hits) + 8) # lang THEN ""
  ELSE RemoveLangTags(s)
filterText(lang, s) == filterTags(lang, s, LangTags(s))

(* A cell: its type, its source, and its metadata (nil when hasMeta is     *)
(* false).                                                                 *)
Cell(type, source, hasMeta, metadata) ==
  [type |-> type, source |-> source, hasMeta |-> hasMeta, metadata |-> metadata]
NoCell == Cell("", "", FALSE, NoMetadata)
(* What a cell function returns: a cell, nil (the cell is dropped), an     *)
(* error, or a run-time panic of a slice expression.                       *)
Cleaned(kind, cell) == [kind |-> kind, cell |-> cell]

(* CleanForStudent, lines 459-477: the spans between BEGIN SOLUTION and    *)
(* END SOLUTION are replaced by the prompt, from span i on; p is the       *)
(* prompt after line 468.                                                  *)
RECURSIVE replaceSolutions(_, _, _, _, _)
joinSpan(text, rest) == [panic |-> rest.panic, text |-> text \o rest.text]
replaceSpan(source, mbeg, mend, p, i) ==
  IF i < Len(mbeg)
  THEN IF mend[i].to > mbeg[i + 1].from
       THEN [panic |-> TRUE, text |-> ""]
       ELSE joinSpan((IF i = 1 THEN Upto(source, mbeg[i].from) ELSE "") \o p
                     \o SubSeq(source, mend[i].to, mbeg[i + 1].from - 1),
                     replaceSolutions(source, mbeg, mend, p, i + 1))
  ELSE [panic |-> FALSE,
        text |-> (IF i = 1 THEN Upto(source, mbeg[i].from) ELSE "") \o p
                 \o From(source, mend[i].to)]
replaceSolutions(source, mbeg, mend, prompt, i) ==
  replaceSpan(source, mbeg, mend,
              IF prompt = "" THEN mbeg[i].indent \o "..." ELSE prompt, i)

(* CleanForStudent, lines 444-482: the solution is removed from a cell's   *)
(* source, from which the prompt was cut already.                          *)
solutionCell(text, exerciseMetadata) ==
  Cleaned("cell", Cell("code", text, ~exerciseMetadata.isNil, exerciseMetadata.map))
replacedCell(r, exerciseMetadata) ==
  IF r.panic THEN Cleaned("panic", NoCell) ELSE solutionCell(r.text, exerciseMetadata)
removeSpans(source, prompt, mbeg, mend, exerciseMetadata) ==
  IF mbeg = <<>> THEN solutionCell("...", exerciseMetadata)
  ELSE IF Len(mbeg) # Len(mend) THEN Cleaned("error", NoCell)
  ELSE replacedCell(replaceSolutions(source, mbeg, mend, prompt, 1), exerciseMetadata)
removeSolution(source, prompt, exerciseMetadata) ==
  removeSpans(source, prompt, FindAllSolutionBegin(source), FindAllSolutionEnd(source),
              exerciseMetadata)
(* CleanForStudent, lines 429-443: the prompt is cut out of the source     *)
(* that follows the magic line.                                            *)
cutPrompt(source, pbeg, pend, exerciseMetadata) ==
  IF ~IsMatch(pbeg) THEN removeSolution(source, "", exerciseMetadata)
  ELSE IF ~IsMatch(pend) THEN Cleaned("error", NoCell)
  ELSE IF pend.to < pbeg.from THEN Cleaned("error", NoCell)
  ELSE IF pbeg.to > pend.from THEN Cleaned("panic", NoCell)
  ELSE removeSolution(Upto(source, pbeg.from) \o From(source, pend.to),
                      SubSeq(source, pbeg.to, pend.from - 1), exerciseMetadata)
cleanSolution(source, exerciseMetadata) ==
  cutPrompt(source, FindPromptBegin(source), FindPromptEnd(source), exerciseMetadata)

(* The removal of the # TEST and %%studenttest markers, lines 414-421 and  *)
(* 546-553.                                                                *)
removeMatch(source, m) == IF IsMatch(m) THEN Remove(source, m) ELSE source
removeStudentTest(source) == removeMatch(source, FindStudentTest(source))
stripTestMarkers(source) == removeStudentTest(removeMatch(source, FindTestMarker(source)))

(* CleanForStudent, lines 384-405: a metadata block is cut out of a        *)
(* markdown cell; x is what extractMetadata returns.                       *)
rewritten(cell, x) ==
  [err |-> x.err, cell |-> Cell(cell.type, x.newSource, FALSE, NoMetadata)]
withoutMetadata(marker, cell) ==
  IF hasMetadata(marker, cell.source)
  THEN rewritten(cell, extractMetadata(marker, cell.source))
  ELSE [err |-> FALSE, cell |-> cell]
cleanedText(r) == IF r.err THEN Cleaned("error", NoCell) ELSE Cleaned("cell", r.cell)
cleanExerciseText(r) ==
  IF r.err THEN Cleaned("error", NoCell)
  ELSE cleanedText(withoutMetadata("# EXERCISE METADATA", r.cell))
(* CleanForStudent, lines 422-497: a code cell whose test markers are      *)
(* removed.                                                                *)
cleanMagic(source, magic, exerciseMetadata) ==
  IF IsMatch(magic) THEN cleanSolution(From(source, magic.to), exerciseMetadata)
  ELSE IF IsMasterOnlyCode(source) THEN Cleaned("nil", NoCell)
  ELSE Cleaned("cell", Cell("code", source, FALSE, NoMetadata))
cleanCode(source, exerciseMetadata) ==
  IF IsMatch(FindInlineTest(source)) THEN Cleaned("nil", NoCell)
  ELSE cleanMagic(source, FindSolutionMagic(source), exerciseMetadata)

(* CleanForStudent, lines 378-502.                                         *)
CleanForStudent(cell, assignmentMetadata, exerciseMetadata, lang) ==
  IF cell.type = "markdown"
  THEN IF HasMasterOnlyMarker(cell.source) THEN Cleaned("nil", NoCell)
       ELSE cleanExerciseText(withoutMetadata("# ASSIGNMENT METADATA", cell))
  ELSE IF cell.type # "code" THEN Cleaned("cell", cell)
  ELSE cleanCode(stripTestMarkers(cell.source), exerciseMetadata)

(* The function ToStudent hands to MapCells, lines 512-578, for one cell.  *)
(* Result: kind is "emit" (cell is appended), "skip", "error" or "panic",  *)
(* with the metadata tables afterwards.                                    *)
studentResult(kind, cell, assignmentMetadata, exerciseMetadata) ==
  [kind |-> kind, cell |-> cell, assignmentMetadata |-> assignmentMetadata,
   exerciseMetadata |-> exerciseMetadata]
(* Lines 535-544: a markdown cell after its metadata blocks were read.     *)
studentFiltered(type, filtered, assignmentMetadata, exerciseMetadata) ==
  IF filtered = "" THEN studentResult("skip", NoCell, assignmentMetadata, exerciseMetadata)
  ELSE studentResult("emit", Cell(type, filtered, FALSE, NoMetadata),
                     assignmentMetadata, exerciseMetadata)
studentText(type, source, assignmentMetadata, exerciseMetadata, lang) ==
  IF HasMasterOnlyMarker(source)
  THEN studentResult("skip", NoCell, assignmentMetadata, exerciseMetadata)
  ELSE studentFiltered(type, filterText(lang, source), assignmentMetadata, exerciseMetadata)
(* Lines 515-532: a markdown cell; a and e are what extractMetadata        *)
(* returns for the two kinds of metadata of the cell's source.             *)
Merged(metadata, more) ==
  [k \in DOMAIN metadata \cup DOMAIN more |->
     IF k \in DOMAIN more THEN more[k] ELSE metadata[k]]
studentMarkdown(cell, assignmentMetadata, exerciseMetadata, lang, hasA, a, hasE, e) ==
  IF hasA /\ a.err
  THEN studentResult("error", NoCell, assignmentMetadata, exerciseMetadata)
  ELSE IF hasE /\ e.err
  THEN studentResult("error", NoCell, Merged(assignmentMetadata, a.metadata),
                     exerciseMetadata)
  ELSE studentText(cell.type,
                   IF hasE THEN e.newSource ELSE IF hasA THEN a.newSource ELSE cell.source,
                   IF hasA THEN Merged(assignmentMetadata, a.metadata)
                   ELSE assignmentMetadata,
                   IF hasE THEN [isNil |-> ~e.found, map |-> e.metadata]
                   ELSE exerciseMetadata,
                   lang)
(* Lines 546-578: a code cell; source has the test markers removed.        *)
studentCleaned(clean, assignmentMetadata, exerciseMetadata) ==
  IF clean.kind = "cell"
  THEN studentResult("emit", clean.cell, assignmentMetadata, exerciseMetadata)
  ELSE studentResult(clean.kind, NoCell, assignmentMetadata, exerciseMetadata)
studentCode(cell, source, assignmentMetadata, exerciseMetadata, lang) ==
  IF IsMatch(FindInlineTest(source))
  THEN studentResult("skip", NoCell, assignmentMetadata, exerciseMetadata)
  ELSE IF IsMatch(FindSolutionMagic(source))
  THEN studentCleaned(CleanForStudent(cell, assignmentMetadata, exerciseMetadata, lang),
                      assignmentMetadata, exerciseMetadata)
  ELSE IF IsMasterOnlyCode(source)
  THEN studentResult("skip", NoCell, assignmentMetadata, exerciseMetadata)
  ELSE studentResult("emit", Cell("code", source, FALSE, NoMetadata),
                     assignmentMetadata, exerciseMetadata)
studentCell(cell, assignmentMetadata, exerciseMetadata, lang) ==
  IF cell.type = "markdown"
  THEN studentMarkdown(cell, assignmentMetadata, exerciseMetadata, lang,
                       hasMetadata("# ASSIGNMENT METADATA", cell.source),
                       extractMetadata("# ASSIGNMENT METADATA", cell.source),
                       hasMetadata("# EXERCISE METADATA", cell.source),
                       extractMetadata("# EXERCISE METADATA", cell.source))
  ELSE IF cell.type # "code"
  THEN studentResult("emit", Cell(cell.type, cell.source, FALSE, NoMetadata),
                     assignmentMetadata, exerciseMetadata)
  ELSE studentCode(cell, stripTestMarkers(cell.source), assignmentMetadata,
                   exerciseMetadata, lang)

----------------------------------------------------------------------------
(* The master notebooks: sequences of cells drawn from a vocabulary of     *)
(* the cell forms the converters distinguish.                              *)
MaxMasterCells == 2

CodeCell(source) == Cell("code", source, FALSE, NoMetadata)
MarkdownCell(source) == Cell("markdown", source, FALSE, NoMetadata)

PlainCode == CodeCell("import math\n")
SolutionCode ==
  CodeCell("%%solution\ndef f():\n  # BEGIN SOLUTION\n  return 1\n  # END SOLUTION\n")
BareSolutionCode == CodeCell("%%solution\nx = 1\n")
PromptCode ==
  CodeCell("%%solution\n# BEGIN PROMPT\nx = ...\n# END PROMPT\n# BEGIN SOLUTION\nx = 1\n# END SOLUTION\n")
InlineTestCode == CodeCell("%%inlinetest T1\nassert f() == 1\n")
SubmissionCode == CodeCell("%%submission\nx = 2\n")
TemplateCode == CodeCell("%%template T\n<b>ok</b>\n")
MasterOnlyCode == CodeCell("# MASTER ONLY\nx = 3\n")
TestCode == CodeCell("# TEST\nf()\n")
StudentTestCode == CodeCell("%%studenttest S1\nf()\n")
UnittestCode ==
  CodeCell("# BEGIN UNITTEST\nclass FTest(unittest.TestCase):\n  pass\n# END UNITTEST\n")
(* Cells an author can get wrong.                                          *)
NoMagicCode == CodeCell("def f():\n  # BEGIN SOLUTION\n  return 1\n  # END SOLUTION\n")
MasterOnlySolutionCode ==
  CodeCell("%%solution\n# MASTER ONLY\n# BEGIN SOLUTION\nx = 1\n# END SOLUTION\n")
UnclosedSolutionCode == CodeCell("%%solution\n# BEGIN SOLUTION\nx = 1\n")
NestedSolutionCode ==
  CodeCell("%%solution\n# BEGIN SOLUTION\n# BEGIN SOLUTION\n# END SOLUTION\n# END SOLUTION\n")
QuotedMagicCode == CodeCell("print('%%solution')\n")

TitleText == MarkdownCell("# Title\n")
MasterOnlyText == MarkdownCell("# MASTER ONLY\nnotes\n")
ExerciseMetadataText == MarkdownCell("'''\n# EXERCISE METADATA\nexercise_id: E1\n'''\n")
AssignmentMetadataText == MarkdownCell("'''\n# ASSIGNMENT METADATA\nassignment_id: A1\n'''\n")
BadMetadataText == MarkdownCell("'''\n# ASSIGNMENT METADATA\noops\n'''\n")
JapaneseText == MarkdownCell("**lang:ja**\nkonnichiwa\n")
MagicText == MarkdownCell("Use %%solution here\n")

StudentVocabulary ==
  {PlainCode, SolutionCode, BareSolutionCode, PromptCode, InlineTestCode,
   SubmissionCode, TemplateCode, MasterOnlyCode, TestCode, StudentTestCode,
   UnittestCode, NoMagicCode, MasterOnlySolutionCode, UnclosedSolutionCode,
   NestedSolutionCode, QuotedMagicCode,
   TitleText, MasterOnlyText, ExerciseMetadataText, AssignmentMetadataText,
   BadMetadataText, JapaneseText, MagicText}

CellSeqsOf(V, n) == UNION {[1..k -> V] : k \in 0..n}
(* A notebook as Parse returns it: Metadata is nil when the file has no    *)
(* "metadata" object (line 107).                                           *)
Master(hasMeta, cells) == [hasMeta |-> hasMeta, metadata |-> NoMetadata, cells |-> cells]
StudentMasters ==
  {Master(h, cs) : h \in BOOLEAN, cs \in CellSeqsOf(StudentVocabulary, MaxMasterCells)}
Languages == {"", "en", "ja"}

(* The server and the autograder take no part in a conversion.             *)
ServerIdle ==
  /\ opts = [UseOpenID |-> FALSE, GradeLocally |-> FALSE, LogToBucket |-> FALSE]
  /\ uploadDir = {}
  /\ autogradeQ = <<>>
  /\ reportQ = <<>>
  /\ resp = NoResponse
  /\ accepted = {}
  /\ reportTimestamp = NoTimestamps
  /\ now = 0
  /\ ticks = 0
  /\ nextId = 1
  /\ workerMsg = <<>>
  /\ scratch = {}
  /\ autograder = [DisableCleanup |-> FALSE, AutoRemove |-> FALSE]
  /\ grading = IdleJob

(* ToStudent is entered: lines 505-510.                                   *)
StudentStart(n, lang) ==
  [IdleConv EXCEPT !.op = "student", !.state = "run", !.lang = lang,
                   !.metadata = [isNil |-> ~n.hasMeta, map |-> n.metadata]]

StudentInit ==
  /\ LastIdle
  /\ ServerIdle
  /\ MoreIdle
  /\ master \in StudentMasters
  /\ \E lang \in Languages : conv = StudentStart(master, lang)
  /\ written = NoFiles
  /\ trip = IdleTrip

(* MapCells calls the cell function on the next cell: lines 226-234.       *)
StudentCell ==
  /\ conv.op = "student" /\ conv.state = "run"
  /\ conv.pos <= Len(master.cells)
  /\ \E r \in {studentCell(master.cells[conv.pos], conv.assignmentMetadata,
                           conv.exerciseMetadata, conv.lang)} :
       conv' = [conv EXCEPT
                  !.state = IF r.kind \in {"error", "panic"} THEN r.kind ELSE "run",
                  !.pos = @ + 1,
                  !.cells = IF r.kind = "emit" THEN Append(@, r.cell) ELSE @,
                  !.assignmentMetadata = r.assignmentMetadata,
                  !.exerciseMetadata = r.exerciseMetadata]
  /\ UNCHANGED <<lastVars, serverVars, gradeVars, moreVars, master, written, trip>>

(* MapCells returns and the assignment metadata is stored into the         *)
(* notebook's metadata: lines 580-586.  Storing into a nil map panics.     *)
StudentReturn ==
  /\ conv.op = "student" /\ conv.state = "run"
  /\ conv.pos > Len(master.cells)
  /\ conv' = [conv EXCEPT
                !.state = IF conv.metadata.isNil /\ DOMAIN conv.assignmentMetadata # {}
                          THEN "panic" ELSE "done",
                !.metadata = IF conv.metadata.isNil THEN @
                             ELSE [isNil |-> FALSE,
                                   map |-> [k \in DOMAIN @.map \cup DOMAIN conv.assignmentMetadata |->
                                              IF k \in DOMAIN conv.assignmentMetadata
                                              THEN conv.assignmentMetadata[k] ELSE @.map[k]]]]
  /\ UNCHANGED <<lastVars, serverVars, gradeVars, moreVars, master, written, trip>>

StudentNext ==
  \/ StudentCell
  \/ StudentReturn

SpecStudent == StudentInit /\ [][StudentNext]_vars

MasterTokens ==
  {"%%solution", "%%inlinetest", "# BEGIN UNITTEST", "%%submission", "%%template",
   "# MASTER ONLY", "# BEGIN SOLUTION", "# END SOLUTION"}

(* C8: no cell source of the student notebook produced by ToStudent        *)
(* contains any of the tokens %%solution, %%inlinetest, # BEGIN UNITTEST,  *)
(* %%submission, %%template, # MASTER ONLY, # BEGIN SOLUTION or            *)
(* # END SOLUTION, for every master notebook and every language filter.    *)
C8_Claim ==
  (conv.op = "student" /\ conv.state = "done")
  => \A i \in DOMAIN conv.cells :
       \A token \in MasterTokens : ~Contains(conv.cells[i].source, token)

----------------------------------------------------------------------------
(* ToAutograder, lines 614-801.                                            *)

FindUnittestBegin(s) ==
  FirstMatch([i \in LineStarts(s) |-> MarkerLineAt(s, i, "# BEGIN UNITTEST")])
FindUnittestEnd(s) ==
  FirstMatch([i \in LineStarts(s) |-> MarkerSpacesAt(s, i, "# END UNITTEST")])
(* cutText, lines 286-299, for the unit test markers.                      *)
cutBetween(text, mbeg, mend) ==
  IF ~IsMatch(mbeg) THEN [kind |-> "ok", text |-> ""]
  ELSE IF ~IsMatch(mend) THEN [kind |-> "error", text |-> ""]
  ELSE IF mend.to < mbeg.from THEN [kind |-> "error", text |-> ""]
  ELSE IF mbeg.to > mend.from THEN [kind |-> "panic", text |-> ""]
  ELSE [kind |-> "ok", text |-> SubSeq(text, mbeg.to, mend.from - 1)]
cutText(text) == cutBetween(text, FindUnittestBegin(text), FindUnittestEnd(text))

(* testClassRegex, line 606: the first line that declares a test class.    *)
TestClassName(s, i, j, k) ==
  IF StartsAt(s, k, "(unittest.TestCase):")
  THEN [from |-> i, to |-> k + 20, name |-> SubSeq(s, j, k - 1)]
  ELSE NoName
TestClassFrom(s, i, m) ==
  IF IsMatch(m) THEN TestClassName(s, i, m.to, SkipWhile(s, m.to, NameChars))
  ELSE NoName
TestClassAt(s, i) == TestClassFrom(s, i, MarkerAt(s, i, "class "))
FindTestClass(s) == FirstMatch([i \in LineStarts(s) |-> TestClassAt(s, i)])

(* importRegex, line 265: a commented-out import that fills its line.      *)
ImportEnd(s, i, n, k) ==
  IF k = Len(s) + 1 \/ Char(s, k) = "\n" THEN Named(s, i, n, k) ELSE NoName
ImportName(s, i, n) ==
  IF IsMatch(n) THEN ImportEnd(s, i, n, SkipWhile(s, n.to, Blanks)) ELSE NoName
ImportWord(s, i, j) ==
  IF StartsAt(s, j, "import") THEN ImportName(s, i, NameAfter(s, j + 6)) ELSE NoName
ImportFrom(s, i, j) ==
  IF StartsAt(s, j, "#") THEN ImportWord(s, i, SkipWhile(s, j + 1, Blanks)) ELSE NoName
ImportAt(s, i) == ImportFrom(s, i, SkipWhile(s, i, Blanks))
ImportLines(ms) == [k \in DOMAIN ms |-> "import " \o ms[k].name \o "\n"]
Imports(s) == ImportLines(AllMatches([i \in LineStarts(s) |-> ImportAt(s, i)]))

(* templateRegex, line 266: the magic, a name and the end of the line.     *)
TemplateName(s, i, n) ==
  IF IsMatch(n) /\ StartsAt(s, n.to, "\n") THEN Named(s, i, n, n.to + 1) ELSE NoName
TemplateFrom(s, i, m) ==
  IF IsMatch(m) THEN TemplateName(s, i, NameAfter(s, m.to)) ELSE NoName
TemplateAt(s, i) == TemplateFrom(s, i, MarkerAt(s, i, "%%template"))
FindTemplate(s) == FirstMatch([i \in LineStarts(s) |-> TemplateAt(s, i)])

(* strings.Join and strings.Replace(s, old, new, -1).                      *)
RECURSIVE Join(_, _)
Join(parts, sep) ==
  IF parts = <<>> THEN ""
  ELSE IF Len(parts) = 1 THEN parts[1]
  ELSE parts[1] \o sep \o Join(Tail(parts), sep)
RECURSIVE Replace(_, _, _)
ReplaceAt(s, old, new, i) ==
  IF i = 0 THEN s
  ELSE Upto(s, i) \o new \o Replace(From(s, i + Len(old)), old, new)
Replace(s, old, new) == ReplaceAt(s, old, new, IndexFrom(s, 1, old))

(* The type switch v.(string) on a value of a metadata block: yaml makes   *)
(* numbers, booleans and null of the plain scalars that look like them.    *)
IsYamlString(v) ==
  /\ v \notin {"", "~", "null", "true", "false"}
  /\ \E i \in 1..Len(v) : Char(v, i) \notin Digits

(* cloneMetadata, lines 590-601, with the extras the callers pass.         *)
cloneMetadata(metadata, filename, assignmentID) ==
  [k \in DOMAIN metadata.map \cup {"filename", "assignment_id"} |->
     IF k = "filename" THEN filename
     ELSE IF k = "assignment_id" THEN assignmentID
     ELSE metadata.map[k]]

(* The script of a %%template cell, lines 772-790.                         *)
ReporterScript(source) ==
  "\nimport jinja2\nimport json\nimport sys\nimport submission_source\nimport pygments\n"
  \o "from pygments import lexers\nfrom pygments import formatters\n\ntemplate = \"\"\""
  \o source
  \o "\"\"\"\n\nif __name__ == '__main__':\n  input = sys.stdin.read()\n"
  \o "  data = json.loads(input)\n  source = submission_source.source\n"
  \o "  formatted_source = pygments.highlight(source, lexers.PythonLexer(), formatters.HtmlFormatter())\n"
  \o "  tmpl = jinja2.Template(template)\n"
  \o "  sys.stdout.write(tmpl.render(results=data['results'], formatted_source=formatted_source, logs=data['logs']))\n"

(* The sources of the cleaned context cells, lines 677-687: kind is "ok",  *)
(* "error" or "panic"; a cell that is cleaned away adds nothing.           *)
contextJoin(clean, rest) ==
  IF clean.kind \in {"error", "panic"} THEN [kind |-> clean.kind, parts |-> <<>>]
  ELSE IF rest.kind # "ok" THEN rest
  ELSE IF clean.kind = "nil" THEN rest
  ELSE [kind |-> "ok", parts |-> <<clean.cell.source>> \o rest.parts]
RECURSIVE contextParts(_, _, _, _)
contextParts(context, i, assignmentMetadata, exerciseMetadata) ==
  IF i > Len(context) THEN [kind |-> "ok", parts |-> <<>>]
  ELSE contextJoin(CleanForStudent(context[i], assignmentMetadata, exerciseMetadata, ""),
                   contextParts(context, i + 1, assignmentMetadata, exerciseMetadata))

(* The two cells of an inline test, lines 688-701.                         *)
inlineTestCellsMutant(name, source, parts, exerciseMetadata, assignmentID) ==
  <<Cell("code", Join(parts, "\n") \o "\n", TRUE,
         cloneMetadata(exerciseMetadata, name \o "_context.py", assignmentID))>>
inlineTestCells(name, source, parts, exerciseMetadata, assignmentID) ==
  <<Cell("code", Join(parts, "\n") \o "\n", TRUE,
         cloneMetadata(exerciseMetadata, name \o "_context.py", assignmentID)),
    Cell("code", source \o "\n", TRUE,
         cloneMetadata(exerciseMetadata, name \o "_inline.py", assignmentID))>>

(* The function ToAutograder hands to MapCells, lines 627-794, for one     *)
(* cell; st holds the variables the function closes over.  Result: kind is *)
(* "emit" (cells may be empty), "error" or "panic", and the variables      *)
(* afterwards.                                                             *)
emitted(cells, st) == [kind |-> "emit", cells |-> cells, st |-> st]
failed(kind, st) == [kind |-> kind, cells |-> <<>>, st |-> st]
HasKey(metadata, key) == key \in DOMAIN metadata
(* Lines 629-664: a markdown cell; a and e are what extractMetadata        *)
(* returns for the two kinds of metadata of the cell's source.             *)
autograderMarkdown(st, hasA, a, hasE, e) ==
  IF hasA /\ a.err THEN failed("error", st)
  ELSE IF hasA /\ HasKey(a.metadata, "assignment_id")
          /\ ~IsYamlString(a.metadata["assignment_id"])
  THEN failed("error", st)
  ELSE IF hasE /\ e.err THEN failed("error", st)
  ELSE IF hasE /\ HasKey(e.metadata, "exercise_id")
          /\ ~IsYamlString(e.metadata["exercise_id"])
  THEN failed("error", st)
  ELSE emitted(<<>>,
         [st EXCEPT
            !.assignmentID = IF hasA /\ HasKey(a.metadata, "assignment_id")
                             THEN a.metadata["assignment_id"] ELSE @,
            !.assignmentMetadata = IF hasA THEN Merged(@, a.metadata) ELSE @,
            !.exerciseMetadata = IF hasE THEN [isNil |-> ~e.found, map |-> e.metadata]
                                 ELSE @,
            !.exerciseID = IF hasE /\ HasKey(e.metadata, "exercise_id")
                           THEN e.metadata["exercise_id"] ELSE @,
            !.exerciseContext = IF hasE THEN <<>> ELSE @])
(* Lines 670-701: an inline test; parts are the sources of the context.    *)
autograderInline(source, st, inline, parts) ==
  IF parts.kind # "ok" THEN failed(parts.kind, st)
  ELSE emitted(inlineTestCells(inline.name, From(source, inline.to), parts.parts,
                               st.exerciseMetadata, st.assignmentID), st)
(* Lines 702-726: a unit test; cut is what cutText returns.                *)
autograderTestClass(st, text, class) ==
  IF ~IsMatch(class) THEN failed("error", st)
  ELSE emitted(<<Cell("code", Join(Imports(text), "") \o text, TRUE,
                      cloneMetadata(st.exerciseMetadata, class.name \o ".py",
                                    st.assignmentID))>>, st)
autograderUnittest(st, cut) ==
  IF cut.kind # "ok" THEN failed(cut.kind, st)
  ELSE autograderTestClass(st, cut.text, FindTestClass(cut.text))
(* Lines 727-748: a solution cell; clean is what CleanForStudent returns,  *)
(* and the source of a nil cell is read when it returns no cell.           *)
autograderSolution(st, clean) ==
  IF clean.kind = "error" THEN failed("error", st)
  ELSE IF clean.kind # "cell" THEN failed("panic", st)
  ELSE emitted(<<Cell("code",
                      "source = \"\"\""
                      \o Replace(clean.cell.source, "\"\"\"", "\\\"\\\"\\\"")
                      \o "\"\"\"",
                      TRUE,
                      cloneMetadata(st.exerciseMetadata, "empty_source.py",
                                    st.assignmentID)),
                 Cell("code", clean.cell.source, TRUE,
                      cloneMetadata(st.exerciseMetadata, "empty_submission.py",
                                    st.assignmentID))>>, st)
(* Lines 749-794: any other code cell joins a context, and a template      *)
(* becomes a reporter script.                                              *)
autograderOther(cell, st, tmpl) ==
  emitted(IF IsMatch(tmpl)
          THEN <<Cell("code", ReporterScript(From(cell.source, tmpl.to)), TRUE,
                      cloneMetadata(st.exerciseMetadata, tmpl.name \o ".py",
                                    st.assignmentID))>>
          ELSE <<>>,
          [st EXCEPT
             !.globalContext = IF st.exerciseID = "" THEN Append(@, cell) ELSE @,
             !.exerciseContext = IF st.exerciseID = "" THEN @ ELSE Append(@, cell)])
autograderCode(cell, st, inline) ==
  IF IsMatch(inline)
  THEN autograderInline(cell.source, st, inline,
                        contextParts(st.globalContext, 1, st.assignmentMetadata,
                                     st.exerciseMetadata))
  ELSE IF HasUnittestBegin(cell.source) THEN autograderUnittest(st, cutText(cell.source))
  ELSE IF IsMatch(FindSolutionMagic(cell.source))
  THEN autograderSolution(st, CleanForStudent(cell, st.assignmentMetadata,
                                              st.exerciseMetadata, ""))
  ELSE autograderOther(cell, st, FindTemplate(cell.source))
autograderCell(cell, st) ==
  IF cell.type = "markdown"
  THEN autograderMarkdown(st,
                          hasMetadata("# ASSIGNMENT METADATA", cell.source),
                          extractMetadata("# ASSIGNMENT METADATA", cell.source),
                          hasMetadata("# EXERCISE METADATA", cell.source),
                          extractMetadata("# EXERCISE METADATA", cell.source))
  ELSE IF cell.type # "code" THEN emitted(<<>>, st)
  ELSE autograderCode(cell, st, FindInlineTest(cell.source))

(* autograderCommand, lines 142-185 of cmd/assign.                         *)
OutputDir == "out"
(* filepath.Join: the elements that are not empty, in order.               *)
filepathJoin(elems) == SelectSeq(elems, LAMBDA x : x # "")
HasString(metadata, key) == key \in DOMAIN metadata /\ IsYamlString(metadata[key])

(* The loop of the dry run, lines 155-160: a type assertion without the    *)
(* second result panics.                                                   *)
RECURSIVE listCells(_, _, _)
listCells(cells, i, assignmentID) ==
  IF i > Len(cells) THEN [kind |-> "done", listing |-> <<>>]
  ELSE IF ~HasString(cells[i].metadata, "exercise_id") \/ ~HasString(cells[i].metadata, "filename")
  THEN [kind |-> "panic", listing |-> <<>>]
  ELSE LET rest == The({listCells(cells, i + 1, assignmentID)})
       IN [kind |-> rest.kind,
           listing |-> <<<<assignmentID, cells[i].metadata["exercise_id"],
                           cells[i].metadata["filename"]>>>> \o rest.listing]

(* The loop that writes the files, lines 167-183, from cell i on.          *)
RECURSIVE writeCells(_, _, _, _)
writeCells(cells, i, assignmentID, files) ==
  IF i > Len(cells) THEN [kind |-> "done", files |-> files]
  ELSE IF ~HasString(cells[i].metadata, "filename") THEN [kind |-> "error", files |-> files]
  ELSE IF ~HasString(cells[i].metadata, "exercise_id") THEN [kind |-> "error", files |-> files]
  ELSE LET dir == filepathJoin(<<OutputDir, assignmentID, cells[i].metadata["exercise_id"]>>)
           path == filepathJoin(dir \o <<cells[i].metadata["filename"]>>)
       IN writeCells(cells, i + 1, assignmentID,
                     [p \in DOMAIN files \cup {path} |->
                        IF p = path THEN cells[i].source ELSE files[p]])

(* The command after ToAutograder returned n: lines 152-184.               *)
autograderCommand(n, dryRun, files) ==
  IF ~HasString(n.metadata.map, "assignment_id")
  THEN [kind |-> "panic", files |-> files, listing |-> <<>>]
  ELSE IF dryRun
  THEN LET l == The({listCells(n.cells, 1, n.metadata.map["assignment_id"])})
       IN [kind |-> l.kind, files |-> files, listing |-> l.listing]
  ELSE LET w == The({writeCells(n.cells, 1, n.metadata.map["assignment_id"], files)})
       IN [kind |-> w.kind, files |-> w.files, listing |-> <<>>]

----------------------------------------------------------------------------
(* The autograder command on the master notebooks.                         *)
MaxAutograderCells == 3

Exercise2MetadataText == MarkdownCell("'''\n# EXERCISE METADATA\nexercise_id: E2\n'''\n")
BothMetadataText ==
  MarkdownCell("'''\n# ASSIGNMENT METADATA\nassignment_id: A1\n'''\n'''\n# EXERCISE METADATA\nexercise_id: E1\n'''\n")
OtherInlineTestCode == CodeCell("%%inlinetest T1\nassert f() > 0\n")

AutograderVocabulary ==
  {AssignmentMetadataText, ExerciseMetadataText, Exercise2MetadataText, BothMetadataText,
   BadMetadataText, PlainCode, SolutionCode, InlineTestCode, OtherInlineTestCode,
   UnittestCode, TemplateCode}
AutograderMasters ==
  {Master(TRUE, cs) : cs \in CellSeqsOf(AutograderVocabulary, MaxAutograderCells)}

(* ToAutograder is entered: lines 614-625; the output flag is empty for a  *)
(* dry run.                                                                *)
AutograderStart(dryRun) ==
  [IdleConv EXCEPT !.op = "autograder", !.state = "run", !.dryRun = dryRun]

AutograderInit ==
  /\ LastIdle
  /\ ServerIdle
  /\ MoreIdle
  /\ master \in AutograderMasters
  /\ \E dryRun \in BOOLEAN : conv = AutograderStart(dryRun)
  /\ written = NoFiles
  /\ trip = IdleTrip

(* MapCells calls the cell function on the next cell: lines 226-234.       *)
AutograderCell ==
  /\ conv.op = "autograder" /\ conv.state = "run"
  /\ conv.pos <= Len(master.cells)
  /\ \E r \in {autograderCell(master.cells[conv.pos], conv)} :
       conv' = [r.st EXCEPT
                  !.state = IF r.kind = "emit" THEN "run" ELSE r.kind,
                  !.pos = @ + 1,
                  !.cells = @ \o r.cells]
  /\ UNCHANGED <<lastVars, serverVars, gradeVars, moreVars, master, written, trip>>

(* MapCells and ToAutograder return: lines 235-240 and 796-800.            *)
AutograderReturn ==
  /\ conv.op = "autograder" /\ conv.state = "run"
  /\ conv.pos > Len(master.cells)
  /\ conv' = [conv EXCEPT !.state = "converted",
                          !.metadata = [isNil |-> FALSE, map |-> conv.assignmentMetadata]]
  /\ UNCHANGED <<lastVars, serverVars, gradeVars, moreVars, master, written, trip>>

(* The command lists or writes the files: lines 152-184.                   *)
AutograderCommand ==
  /\ conv.op = "autograder" /\ conv.state = "converted"
  /\ \E r \in {autograderCommand(conv, conv.dryRun, written)} :
       /\ conv' = [conv EXCEPT !.state = r.kind, !.listing = r.listing]
       /\ written' = r.files
  /\ UNCHANGED <<lastVars, serverVars, gradeVars, moreVars, master, trip>>

AutograderNext ==
  \/ AutograderCell
  \/ AutograderReturn
  \/ AutograderCommand

SpecAutograder == AutograderInit /\ [][AutograderNext]_vars

(* What the master notebook says: the cells that are inline tests, the     *)
(* exercise id in force at cell i (that of the last exercise metadata      *)
(* block before it, "" when there is none) and the assignment id.          *)
Max(S) == CHOOSE x \in S : \A y \in S : y <= x
InlineTests(n) ==
  {i \in DOMAIN n.cells :
     n.cells[i].type = "code" /\ IsMatch(FindInlineTest(n.cells[i].source))}
MetadataBlocks(n, marker, key) ==
  {j \in DOMAIN n.cells :
     /\ n.cells[j].type = "markdown"
     /\ hasMetadata(marker, n.cells[j].source)
     /\ key \in DOMAIN extractMetadata(marker, n.cells[j].source).metadata}
ExerciseOf(n, i) ==
  LET before == {j \in MetadataBlocks(n, "# EXERCISE METADATA", "exercise_id") : j < i}
  IN IF before = {} THEN ""
     ELSE extractMetadata("# EXERCISE METADATA",
                          n.cells[Max(before)].source).metadata["exercise_id"]
AssignmentOf(n) ==
  LET blocks == MetadataBlocks(n, "# ASSIGNMENT METADATA", "assignment_id")
  IN IF blocks = {} THEN ""
     ELSE extractMetadata("# ASSIGNMENT METADATA",
                          n.cells[Max(blocks)].source).metadata["assignment_id"]
InlineTestName(n, i) == FindInlineTest(n.cells[i].source).name
(* The directories of the output that hold a file of the given name.       *)
DirsHolding(filename) ==
  {SubSeq(p, 1, Len(p) - 1) : p \in {q \in DOMAIN written : q[Len(q)] = filename}}
Wrote == conv.op = "autograder" /\ conv.state = "done" /\ ~conv.dryRun

(* C9: when the autograder command has written its output for a master    *)
(* notebook, then for every %%inlinetest X cell under exercise id E the    *)
(* directory <assignment_id>/E/ of the output holds X_context.py and       *)
(* X_inline.py, and no other directory holds a file of either name unless  *)
(* the notebook has an inline test X under that directory's exercise too:  *)
(* one X_context.py and one X_inline.py per exercise with such a test.     *)
C9_Formula ==
  Wrote =>
    \A i \in InlineTests(master) :
      LET X == InlineTestName(master, i)
          dirs == {<<OutputDir, AssignmentOf(master), ExerciseOf(master, j)>> :
                     j \in {k \in InlineTests(master) : InlineTestName(master, k) = X}}
      IN /\ ExerciseOf(master, i) # ""
         /\ DirsHolding(X \o "_context.py") = dirs
         /\ DirsHolding(X \o "_inline.py") = dirs

(* C9 witness: the output was written for a notebook with an inline test   *)
(* T1 under exercise E1 of assignment A1, and both files are in A1/E1.     *)
C9_Witness ==
  /\ Wrote
  /\ \E i \in InlineTests(master) :
       InlineTestName(master, i) = "T1" /\ ExerciseOf(master, i) = "E1"
  /\ <<OutputDir, "A1", "E1", "T1_context.py">> \in DOMAIN written
  /\ <<OutputDir, "A1", "E1", "T1_inline.py">> \in DOMAIN written

----------------------------------------------------------------------------
(* Parse and Marshal, lines 61-220.                                        *)

(* data[key]: the member, or nil when the key is absent.                   *)
Member(v, key) == IF key \in DOMAIN v.m THEN v.m[key] ELSE DNull
Strings(l) == [k \in DOMAIN l |-> l[k].s]

(* parseText, lines 63-86: the text and whether an error is returned.      *)
parseText(v) ==
  IF v.t = "list"
  THEN IF \A k \in DOMAIN v.l : v.l[k].t = "string"
       THEN [err |-> FALSE, text |-> Join(Strings(v.l), "")]
       ELSE [err |-> TRUE, text |-> ""]
  ELSE IF v.t = "string" THEN [err |-> FALSE, text |-> v.s]
  ELSE [err |-> TRUE, text |-> ""]

(* The loop over the outputs of a cell, lines 134-152, from element i on;  *)
(* outputs maps the names seen so far to their texts.                      *)
PutText(outputs, name, text) ==
  [k \in DOMAIN outputs \cup {name} |-> IF k = name THEN text ELSE outputs[k]]
RECURSIVE parseOutputs(_, _, _)
parseOutput(ss, i, outputs, name, text) ==
  IF name.t # "string" THEN [err |-> TRUE, outputs |-> outputs]
  ELSE IF text.err THEN [err |-> TRUE, outputs |-> outputs]
  ELSE parseOutputs(ss, i + 1, PutText(outputs, name.s, text.text))
parseOutputs(ss, i, outputs) ==
  IF i > Len(ss) THEN [err |-> FALSE, outputs |-> outputs]
  ELSE IF ss[i].t # "map" THEN parseOutputs(ss, i + 1, outputs)
  ELSE IF "name" \notin DOMAIN ss[i].m THEN parseOutputs(ss, i + 1, outputs)
  ELSE parseOutput(ss, i, outputs, ss[i].m["name"], parseText(Member(ss[i], "text")))

(* A Cell struct, lines 33-45: Metadata is nil when hasMeta is false.      *)
FileCell(type, hasMeta, metadata, outputs, source) ==
  [Type |-> type, hasMeta |-> hasMeta, Metadata |-> metadata, Outputs |-> outputs,
   Source |-> source]
NoFileCell == FileCell("", FALSE, <<>>, <<>>, "")
(* The body of the loop over the cells, lines 115-155.  The error of the   *)
(* source's parseText is overwritten or dropped: lines 126 and 158.        *)
parsedCell(celldata, outputs) ==
  [err |-> outputs.err,
   cell |-> FileCell(IF Member(celldata, "cell_type").t = "string"
                     THEN Member(celldata, "cell_type").s ELSE "",
                     Member(celldata, "metadata").t = "map",
                     IF Member(celldata, "metadata").t = "map"
                     THEN Member(celldata, "metadata").m ELSE <<>>,
                     outputs.outputs,
                     parseText(Member(celldata, "source")).text)]
parseCell(x) ==
  IF x.t # "map" THEN [err |-> TRUE, cell |-> NoFileCell]
  ELSE IF "outputs" \notin DOMAIN x.m
  THEN parsedCell(x, [err |-> FALSE, outputs |-> <<>>])
  ELSE IF x.m["outputs"].t # "list" THEN [err |-> TRUE, cell |-> NoFileCell]
  ELSE parsedCell(x, parseOutputs(x.m["outputs"].l, 1, <<>>))
RECURSIVE parseCells(_, _)
parseNext(c, rest) ==
  IF c.err \/ rest.err THEN [err |-> TRUE, cells |-> <<>>]
  ELSE [err |-> FALSE, cells |-> <<c.cell>> \o rest.cells]
parseCells(cellsList, i) ==
  IF i > Len(cellsList) THEN [err |-> FALSE, cells |-> <<>>]
  ELSE parseNext(parseCell(cellsList[i]), parseCells(cellsList, i + 1))

(* Parse, lines 90-159.  json.Unmarshal into a map fails for a file that   *)
(* holds neither an object nor null, and leaves the map without a key for  *)
(* null.  The numbers of the model are whole, and int(val) keeps those.    *)
parsedNotebook(data, cells) ==
  [err |-> cells.err,
   nb |-> IF cells.err THEN EmptyNotebook
          ELSE [NBFormat |-> IF Member(data, "nbformat").t = "number"
                             THEN Member(data, "nbformat").n ELSE 0,
                NBFormatMinor |-> IF Member(data, "nbformat_minor").t = "number"
                                  THEN Member(data, "nbformat_minor").n ELSE 0,
                hasMeta |-> Member(data, "metadata").t = "map",
                Metadata |-> IF Member(data, "metadata").t = "map"
                             THEN Member(data, "metadata").m ELSE <<>>,
                Cells |-> cells.cells]]
Parse(b) ==
  IF b.t \notin {"map", "null"} THEN NoParse
  ELSE IF "cells" \notin DOMAIN b.m
  THEN parsedNotebook(b, [err |-> FALSE, cells |-> <<>>])
  ELSE IF b.m["cells"].t # "list" THEN NoParse
  ELSE parsedNotebook(b, parseCells(b.m["cells"].l, 1))

(* strings.Split(text, "\n").                                              *)
RECURSIVE Split(_)
SplitAt(s, i) == IF i = 0 THEN <<s>> ELSE <<Upto(s, i)>> \o Split(From(s, i + 1))
Split(s) == SplitAt(s, IndexFrom(s, 1, "\n"))
(* marshalText, lines 163-174.                                             *)
marshalLines(lines) ==
  [k \in DOMAIN lines |-> DStr(IF k = Len(lines) THEN lines[k] ELSE lines[k] \o "\n")]
marshalText(text) == marshalLines(Split(text))

(* Cell.json, lines 177-206.  The outputs come out in the order in which   *)
(* the map is ranged over, which Go leaves open: order lists the names.    *)
OutputOf(outputs, name) ==
  DMap([k \in {"name", "output_type", "text"} |->
          IF k = "name" THEN DStr(name)
          ELSE IF k = "output_type" THEN DStr("stream")
          ELSE DList(marshalText(outputs[name]))])
OutputsOf(outputs, names) == [k \in DOMAIN names |-> OutputOf(outputs, names[k])]
RECURSIVE Ranged(_, _, _)
Ranged(order, i, names) ==
  IF i > Len(order) THEN <<>>
  ELSE (IF order[i] \in names THEN <<order[i]>> ELSE <<>>) \o Ranged(order, i + 1, names)
cellJson(cell, order) ==
  DMap([k \in {"metadata", "cell_type", "source"}
              \cup (IF cell.Type = "code" THEN {"execution_count", "outputs"} ELSE {}) |->
          IF k = "metadata" THEN DMap(IF cell.hasMeta THEN cell.Metadata ELSE <<>>)
          ELSE IF k = "cell_type" THEN DStr(cell.Type)
          ELSE IF k = "execution_count" THEN DNull
          ELSE IF k = "outputs"
          THEN DList(OutputsOf(cell.Outputs, Ranged(order, 1, DOMAIN cell.Outputs)))
          ELSE DList(marshalText(cell.Source))])

(* Notebook.Marshal, lines 209-220: a nil map and a nil slice are written  *)
(* as null, and the slice of the cells is nil when there is no cell.       *)
Marshal(n, order) ==
  DMap([k \in {"nbformat", "nbformat_minor", "metadata", "cells"} |->
          IF k = "nbformat" THEN DNum(n.NBFormat)
          ELSE IF k = "nbformat_minor" THEN DNum(n.NBFormatMinor)
          ELSE IF k = "metadata" THEN (IF n.hasMeta THEN DMap(n.Metadata) ELSE DNull)
          ELSE IF n.Cells = <<>> THEN DNull
          ELSE DList([i \in DOMAIN n.Cells |-> cellJson(n.Cells[i], order)])])

----------------------------------------------------------------------------
(* Notebook files.                                                         *)

MaxFileCells == 2

StdoutOutput == DMap([k \in {"name", "output_type", "text"} |->
                  IF k = "name" THEN DStr("stdout")
                  ELSE IF k = "output_type" THEN DStr("stream")
                  ELSE DList(<<DStr("x\n"), DStr("y")>>)])
StderrOutput == DMap([k \in {"name", "text"} |->
                  IF k = "name" THEN DStr("stderr") ELSE DStr("oops\n")])
NamelessOutput == DMap([k \in {"output_type"} |-> DStr("display_data")])
NumberedOutput == DMap([k \in {"name", "text"} |->
                    IF k = "name" THEN DNum(1) ELSE DStr("x")])
TextlessOutput == DMap([k \in {"name"} |-> DStr("stdout")])
FileCodeCell(source, outputs) ==
  DMap([k \in {"cell_type", "metadata", "execution_count", "source", "outputs"} |->
          IF k = "cell_type" THEN DStr("code")
          ELSE IF k = "metadata" THEN DMap(<<>>)
          ELSE IF k = "execution_count" THEN DNum(1)
          ELSE IF k = "source" THEN source
          ELSE outputs])
FileCells ==
  { FileCodeCell(DList(<<DStr("a = 1\n"), DStr("print(a)")>>), DList(<<StdoutOutput>>)),
    DMap([k \in {"cell_type", "metadata", "source"} |->
            IF k = "cell_type" THEN DStr("markdown")
            ELSE IF k = "metadata" THEN DMap([j \in {"id"} |-> DStr("c1")])
            ELSE DStr("# Title\n\ntext\n")]),
    DMap([k \in {"source"} |-> DList(<<>>)]),
    DMap([k \in {"cell_type", "metadata", "source"} |->
            IF k = "cell_type" THEN DNum(1)
            ELSE IF k = "metadata" THEN DStr("none")
            ELSE DNum(2)]),
    DMap([k \in {"cell_type", "source"} |->
            IF k = "cell_type" THEN DStr("raw") ELSE DList(<<DStr("a\n"), DNum(3)>>)]),
    FileCodeCell(DStr("x\n"), DStr("none")),
    FileCodeCell(DStr("\n"),
                 DList(<<DStr("junk"), NamelessOutput, StderrOutput, StdoutOutput>>)),
    FileCodeCell(DStr("x"), DList(<<NumberedOutput>>)),
    FileCodeCell(DStr("x"), DList(<<TextlessOutput>>)),
    DStr("cell") }
FileCellLists == UNION {[1..n -> FileCells] : n \in 0..MaxFileCells}
FileMetadata == {DNull, DStr("none"), DMap([j \in {"assignment_id"} |-> DStr("A1")])}
Document(metadata, cells) ==
  DMap([k \in {"nbformat", "nbformat_minor"}
              \cup (IF metadata = DNull THEN {} ELSE {"metadata"})
              \cup (IF cells = DStr("absent") THEN {} ELSE {"cells"}) |->
          IF k = "nbformat" THEN DNum(4)
          ELSE IF k = "nbformat_minor" THEN DNum(2)
          ELSE IF k = "metadata" THEN metadata
          ELSE cells])
Documents ==
  {DNull, DStr("text"), DList(<<>>)}
  \cup {Document(metadata, cells) :
          metadata \in FileMetadata,
          cells \in {DStr("absent"), DNull, DNum(0)} \cup {DList(l) : l \in FileCellLists}}
OutputOrders == {<<"stdout", "stderr">>, <<"stderr", "stdout">>}

RoundTripInit ==
  /\ LastIdle
  /\ ServerIdle
  /\ MoreIdle
  /\ master = NoNotebook
  /\ conv = IdleConv
  /\ written = NoFiles
  /\ \E b \in Documents : trip = [IdleTrip EXCEPT !.stage = "file", !.file = b]

(* notebook.Parse of the file.                                             *)
ParseFile ==
  /\ trip.stage = "file"
  /\ trip' = [trip EXCEPT !.parsed = Parse(trip.file),
                          !.stage = IF Parse(trip.file).err THEN "failed" ELSE "parsed"]
  /\ UNCHANGED <<lastVars, serverVars, gradeVars, moreVars, master, conv, written>>

(* Marshal of the parsed notebook.                                         *)
MarshalNotebook ==
  /\ trip.stage = "parsed"
  /\ \E order \in OutputOrders :
       trip' = [trip EXCEPT !.emitted = Marshal(trip.parsed.nb, order),
                            !.stage = "emitted"]
  /\ UNCHANGED <<lastVars, serverVars, gradeVars, moreVars, master, conv, written>>

(* notebook.Parse of the emitted form.                                     *)
ParseEmitted ==
  /\ trip.stage = "emitted"
  /\ trip' = [trip EXCEPT !.reparsed = Parse(trip.emitted), !.stage = "reparsed"]
  /\ UNCHANGED <<lastVars, serverVars, gradeVars, moreVars, master, conv, written>>

RoundTripNext == ParseFile \/ MarshalNotebook \/ ParseEmitted
SpecRoundTrip == RoundTripInit /\ [][RoundTripNext]_vars

(* Two cells with the same type, metadata and source; a cell with no       *)
(* metadata and one with an empty map have the same metadata.              *)
SameMetadata(c, d) ==
  /\ DOMAIN c.Metadata = DOMAIN d.Metadata
  /\ \A k \in DOMAIN c.Metadata : c.Metadata[k] = d.Metadata[k]
SameCell(c, d) == c.Type = d.Type /\ SameMetadata(c, d) /\ c.Source = d.Source
SameCells(cs, ds) ==
  /\ Len(cs) = Len(ds)
  /\ \A i \in DOMAIN cs : SameCell(cs[i], ds[i])

(* C10: for every notebook that parses, parsing the emitted form of the    *)
(* parsed notebook succeeds and yields the same cells in the same order,   *)
(* each with the same type, metadata and source.                           *)
C10_Claim ==
  trip.stage = "reparsed"
  => /\ ~trip.reparsed.err
     /\ SameCells(trip.parsed.nb.Cells, trip.reparsed.nb.Cells)

----------------------------------------------------------------------------
(* Sessions.  The session store is a CookieStore (line 701): a session is  *)
(* the content of the user_session cookie the browser sends back.         *)

MaxRequests == 3
Emails == {"alice", "mallory"}
AllowLists == {{}, {"alice"}}

(* session.Save with the session's Options, as the browser applies the    *)
(* Set-Cookie header: a negative MaxAge deletes the cookie.                *)
Save(values, maxAge) == IF maxAge < 0 THEN "none" ELSE values

(* handleLogout, lines 1157-1167, as a function of the cookie sent: the    *)
(* status of the answer and the cookie the browser holds afterwards.       *)
handleLogoutMutant(cookie) ==
  IF cookie = "undecodable"
  THEN [status |-> 500, cookie |-> cookie, saved |-> FALSE]
  ELSE [status |-> 307, cookie |-> cookie, saved |-> TRUE]

handleLogout(cookie) ==
  IF cookie = "undecodable"
  THEN [status |-> 500, cookie |-> cookie, saved |-> FALSE]
  ELSE [status |-> 307, cookie |-> Save("nohash", -1), saved |-> TRUE]

(* handleCallback, lines 1099-1135.  infoOK: getUserInfo returns the       *)
(* profile; email: the address in the profile.  hashId, lines 739-742,     *)
(* returns 56 hexadecimal digits, so the hash stored is never empty.       *)
handleCallback(o, cookie, infoOK, email) ==
  IF ~infoOK \/ cookie = "undecodable"
  THEN [status |-> 500, cookie |-> cookie, saved |-> FALSE]
  ELSE IF o.AllowedUsers # {} /\ email \notin o.AllowedUsers
  THEN [status |-> 403, cookie |-> Save("nohash", -1), saved |-> TRUE]
  ELSE [status |-> 307, cookie |-> Save("valid", 3600), saved |-> TRUE]

(* uploadForm, lines 1376-1389: the status of the answer.                  *)
uploadForm(o, method, cookie) ==
  LET authErr == IF o.UseOpenID THEN authenticate(cookie) ELSE ""
  IN IF authErr = "401" THEN 401
     ELSE IF authErr # "" THEN 500
     ELSE IF method # "GET" THEN 500
     ELSE 200

SessionInit ==
  /\ LastIdle
  /\ opts \in {[UseOpenID |-> TRUE, GradeLocally |-> FALSE, LogToBucket |-> FALSE,
                AllowedUsers |-> a] : a \in AllowLists}
  /\ uploadDir = {}
  /\ autogradeQ = <<>>
  /\ reportQ = <<>>
  /\ resp = NoResponse
  /\ accepted = {}
  /\ reportTimestamp = NoTimestamps
  /\ now = 0
  /\ ticks = 0
  /\ nextId = 1
  /\ workerMsg = <<>>
  /\ scratch = {}
  /\ autograder = [DisableCleanup |-> FALSE, AutoRemove |-> FALSE]
  /\ grading = IdleJob
  /\ AssignIdle
  /\ session \in {[IdleSession EXCEPT !.cookie = c] : c \in Cookies}
  /\ posting = IdlePosting
  /\ script = IdleScript
  /\ pool = IdlePool

Answered(method, path, r) ==
  [cookie |-> r.cookie,
   cleared |-> IF r.saved THEN r.status # 307 \/ path = "/logout" ELSE session.cleared,
   method |-> method, path |-> path, status |-> r.status, n |-> session.n + 1]

(* GET /logout with the cookie the browser holds.                          *)
Logout ==
  /\ session.n < MaxRequests
  /\ session' = Answered("GET", "/logout", handleLogout(session.cookie))
  /\ UNCHANGED <<lastVars, serverVars, gradeVars, assignVars, posting, script, pool>>

(* GET /callback, the redirect back from the identity provider.            *)
Callback ==
  /\ session.n < MaxRequests
  /\ \E infoOK \in BOOLEAN, email \in Emails :
       session' = Answered("GET", "/callback",
                           handleCallback(opts, session.cookie, infoOK, email))
  /\ UNCHANGED <<lastVars, serverVars, gradeVars, assignVars, posting, script, pool>>

(* A request to / with the cookie the browser holds.                       *)
UploadForm ==
  /\ session.n < MaxRequests
  /\ \E method \in {"GET", "POST"} :
       session' = [session EXCEPT
                     !.method = method, !.path = "/",
                     !.status = uploadForm(opts, method, session.cookie),
                     !.n = session.n + 1]
  /\ UNCHANGED <<lastVars, serverVars, gradeVars, assignVars, posting, script, pool>>

(* A request to /upload with the cookie the browser holds, handled to the  *)
(* end as in HandleUpload.                                                 *)
SessionUpload ==
  /\ session.n < MaxRequests
  /\ nextId <= MaxUploads
  /\ \E req \in UploadRequests :
       /\ req.cookie = session.cookie
       /\ LET r == handleUpload(opts, req, uploadDir, Uuid(nextId), scratch,
                                autograder, now)
          IN /\ resp' = r.resp
             /\ uploadDir' = r.uploadDir
             /\ autogradeQ' = autogradeQ \o r.posted
             /\ nextId' = IF r.used THEN nextId + 1 ELSE nextId
             /\ scratch' = r.scratch
             /\ accepted' = IF r.resp.status = 200 /\ r.resp.id # ""
                            THEN accepted \cup {r.resp.id} ELSE accepted
             /\ session' = [session EXCEPT
                              !.method = req.method, !.path = "/upload",
                              !.status = r.resp.status, !.n = session.n + 1]
  /\ UNCHANGED <<lastVars, opts, reportQ, reportTimestamp, now, ticks, workerMsg,
                 autograder, grading, assignVars, posting, script, pool>>

SessionNext ==
  \/ Logout
  \/ Callback
  \/ UploadForm
  \/ SessionUpload

SpecSession == SessionInit /\ [][SessionNext]_vars

(* C15: once the server has saved the session without a hash, on /logout   *)
(* or on a /callback answered with 403, the cookie holds no hash, and      *)
(* every request to / or to /upload (other than the OPTIONS preflight,     *)
(* which needs no identity) made with it is answered with 401, until a     *)
(* /callback stores a hash again.                                          *)
IdentityRequest(s) ==
  \/ s.path = "/"
  \/ s.path = "/upload" /\ s.method # "OPTIONS"
C15_Step ==
  /\ session'.cleared => session'.cookie \in {"none", "nohash"}
  /\ (session.cleared /\ session'.n # session.n /\ IdentityRequest(session'))
     => session'.status = 401
C15_Formula == [][C15_Step]_vars
C15_Witness ==
  /\ session.cleared
  /\ session.path = "/upload"
  /\ session.method = "POST"
  /\ session.status = 401
  /\ session.n = 3

----------------------------------------------------------------------------
(* Combined mode.  With -grade_locally the command builds an Autograder    *)
(* and opens no queue (main.go, lines 139-147), and starts no report       *)
(* listener (lines 221-226): the server handles uploads and report         *)
(* requests.                                                               *)
CombinedInit ==
  /\ LastIdle
  /\ opts \in {o \in [UseOpenID : BOOLEAN, GradeLocally : BOOLEAN, LogToBucket : BOOLEAN] :
                 o.GradeLocally}
  /\ uploadDir = {}
  /\ autogradeQ = <<>>
  /\ reportQ = <<>>
  /\ resp = NoResponse
  /\ accepted = {}
  /\ reportTimestamp = NoTimestamps
  /\ now = 0
  /\ ticks = 0
  /\ nextId = 1
  /\ workerMsg = <<>>
  /\ scratch = {}
  /\ autograder = [DisableCleanup |-> FALSE, AutoRemove |-> FALSE]
  /\ grading = IdleJob
  /\ AssignIdle
  /\ MoreIdle

CombinedNext ==
  \/ HandleUpload
  \/ HandleReport

SpecCombined == CombinedInit /\ [][CombinedNext]_vars

(* C16: in combined mode nothing is ever posted to the autograde queue,    *)
(* the report file of every accepted upload exists from the moment the     *)
(* upload is answered with 200, and a GET /report/<id> for an accepted id, *)
(* at any time, is not answered with the waiting page.                     *)
ReportRequest(id) ==
  [method |-> "GET", cookie |-> "none", bodyLen |-> 0, formLen |-> 0, id |-> id]
C16_Formula ==
  /\ autogradeQ = <<>>
  /\ \A id \in accepted :
       /\ FileExists(uploadDir, TxtName(id))
       /\ handleReport(ReportRequest(id), uploadDir, reportTimestamp, now).resp.body.kind
            = "report"
C16_Witness ==
  /\ opts.GradeLocally
  /\ Uuid(1) \in accepted
  /\ resp.path = "/report"
  /\ resp.id = Uuid(1)
  /\ resp.body.kind = "report"

----------------------------------------------------------------------------
(* Concurrent uploads.  net/http serves every connection in a goroutine of *)
(* its own; handleUpload calls scheduleCheck, lines 1339-1341, which calls *)
(* Channel.Post(QueueName, content) in that goroutine.                     *)

QueueName == "autograde"
InPost(h) == posting.pc[h] \in {"getQueue", "declare", "publish"}
AtQueues(h) == posting.pc[h] \in {"getQueue", "declare"}

PostingInit ==
  /\ LastIdle
  /\ ServerIdle
  /\ AssignIdle
  /\ posting = IdlePosting
  /\ session = IdleSession
  /\ script = IdleScript
  /\ pool = IdlePool

(* handleUpload of line 1289 reaches scheduleCheck: Post is entered.       *)
ScheduleCheck(h) ==
  /\ ~posting.fatal
  /\ posting.pc[h] = "idle"
  /\ nextId <= MaxUploads
  /\ posting' = [posting EXCEPT !.pc[h] = "getQueue", !.id[h] = Uuid(nextId)]
  /\ nextId' = nextId + 1
  /\ UNCHANGED <<lastVars, opts, uploadDir, autogradeQ, reportQ, resp, accepted,
                 reportTimestamp, now, ticks, workerMsg, gradeVars, assignVars,
                 session, script, pool>>

(* getQueue, lines 45-48: the lookup in Channel.queues.                    *)
GetQueue(h) ==
  /\ ~posting.fatal
  /\ posting.pc[h] = "getQueue"
  /\ posting' = [posting EXCEPT
                   !.pc[h] = IF QueueName \in posting.queues THEN "publish"
                             ELSE "declare"]
  /\ UNCHANGED <<lastVars, serverVars, gradeVars, assignVars, session, script, pool>>

(* getQueue, lines 49-62: QueueDeclare, then the store into Channel.queues. *)
(* A store while another goroutine reads or writes the same map is a data  *)
(* race: the runtime may stop the process (concurrent map writes), or the  *)
(* store goes through.                                                     *)
QueueDeclare(h) ==
  /\ ~posting.fatal
  /\ posting.pc[h] = "declare"
  /\ \E fatal \in {FALSE} \cup {\E g \in Handlers \ {h} : AtQueues(g)} :
       posting' = [posting EXCEPT
                     !.pc[h] = IF fatal THEN "declare" ELSE "publish",
                     !.queues = IF fatal THEN @ ELSE @ \cup {QueueName},
                     !.fatal = fatal]
  /\ UNCHANGED <<lastVars, serverVars, gradeVars, assignVars, session, script, pool>>

(* Post, lines 71-79: Publish hands the message to the broker.             *)
Publish(h) ==
  /\ ~posting.fatal
  /\ posting.pc[h] = "publish"
  /\ autogradeQ' = Append(autogradeQ, posting.id[h])
  /\ posting' = [posting EXCEPT !.pc[h] = "idle", !.id[h] = ""]
  /\ UNCHANGED <<lastVars, opts, uploadDir, reportQ, resp, accepted, reportTimestamp,
                 now, ticks, nextId, workerMsg, gradeVars, assignVars,
                 session, script, pool>>

PostingNext ==
  \E h \in Handlers :
    \/ ScheduleCheck(h)
    \/ GetQueue(h)
    \/ QueueDeclare(h)
    \/ Publish(h)

SpecPosting == PostingInit /\ [][PostingNext]_vars

(* C17: at no time are two goroutines inside Post (getQueue included) on   *)
(* the server's Channel.                                                   *)
C17_Claim == Cardinality({h \in Handlers : InPost(h)}) <= 1

----------------------------------------------------------------------------
(* Inline tests.  inlineTestTmpl, lines 68-90, assembles a Python script   *)
(* of three sections, each in a try statement; RunInlineTest, lines        *)
(* 564-660, runs it in the sandbox and reads the outcome off its output.   *)

(* The classes a section may raise: the first two derive from Exception,   *)
(* SystemExit derives from BaseException only.                             *)
ExceptionClasses == {"AssertionError", "ValueError"}
Classes == ExceptionClasses \cup {"SystemExit"}
Messages == {"boom", "a}}b", ""}
(* "%s" % e.__class__                                                      *)
ClassRepr(class) == "<class '" \o class \o "'>"
(* What the interpreter writes for an exception nothing catches, and the   *)
(* exit status: a traceback, or the argument of SystemExit.               *)
Traceback(e) ==
  "Traceback (most recent call last):\n" \o e.class
     \o (IF e.msg = "" THEN "" ELSE ": " \o e.msg) \o "\n"
Uncaught(e) ==
  [out |-> e.prints \o (IF e.class = "SystemExit" THEN e.msg \o "\n" ELSE Traceback(e)),
   status |-> 1, exited |-> TRUE]
Continue(out) == [out |-> out, status |-> 0, exited |-> FALSE]
(* The process ends inside a section: sys.exit(0) raises SystemExit, which *)
(* no except clause of the script catches, and the status is 0; a section  *)
(* that does not end is killed by the sandbox after --time_limit seconds,  *)
(* line 583, which logs the kill to the captured output.                   *)
KillLine == "[I] pid=1 run time >= time limit (10 >= 10). Killing it\n"
Ended(e) ==
  IF e.kind = "exit" THEN [out |-> e.prints, status |-> 0, exited |-> TRUE]
  ELSE [out |-> e.prints \o KillLine, status |-> 137, exited |-> TRUE]
Ends(e) == e.kind \in {"exit", "hang"}

(* Lines 70-76: the context section, present when Context is not empty.    *)
contextSection(e) ==
  IF Ends(e) THEN Ended(e)
  ELSE IF e.kind # "raise" THEN Continue(e.prints)
  ELSE IF e.class \in ExceptionClasses
  THEN [out |-> e.prints \o "\nWhile executing context: ERROR{{" \o e.msg \o "}}\n" \o Traceback(e),
        status |-> 1, exited |-> TRUE]
  ELSE Uncaught(e)

(* Lines 77-81: the submission section.                                    *)
submissionSectionMutant(e) ==
  IF Ends(e) THEN Ended(e)
  ELSE IF e.kind # "raise" THEN Continue(e.prints)
  ELSE IF e.class \in ExceptionClasses
  THEN Continue(e.prints \o "\nWhile executing submission: FAIL{{" \o ClassRepr(e.class)
                   \o ": " \o e.msg \o "}}\n")
  ELSE Uncaught(e)

submissionSection(e) ==
  IF Ends(e) THEN Ended(e)
  ELSE IF e.kind # "raise" THEN Continue(e.prints)
  ELSE IF e.class \in ExceptionClasses
  THEN [out |-> e.prints \o "\nWhile executing submission: FAIL{{" \o ClassRepr(e.class)
                   \o ": " \o e.msg \o "}}\n",
        status |-> 1, exited |-> TRUE]
  ELSE Uncaught(e)

(* Lines 82-90: the inline test section; the script ends after it.         *)
inlineSection(e) ==
  IF Ends(e) THEN Ended(e)
  ELSE IF e.kind # "raise"
  THEN [out |-> e.prints \o "OK{{}}\n", status |-> 0, exited |-> TRUE]
  ELSE IF e.class = "AssertionError"
  THEN [out |-> e.prints \o "\nWhile executing inline test: FAIL{{" \o e.msg \o "}}\n",
        status |-> 1, exited |-> TRUE]
  ELSE IF e.class \in ExceptionClasses
  THEN [out |-> e.prints \o "\nWhile executing inline test: ERROR{{" \o e.msg \o "}}\n"
                   \o Traceback(e),
        status |-> 1, exited |-> TRUE]
  ELSE Uncaught(e)

(* inlineOutcomeRegex, line 523: OK, ERROR or FAIL, two opening braces, a  *)
(* body of characters other than a closing brace or of a closing brace     *)
(* followed by another character, and two closing braces; all matches from *)
(* position i on, leftmost first, without overlap.  The body of a match    *)
(* ends at the first "}}" after the opening braces.                        *)
Statuses == {"OK", "ERROR", "FAIL"}
OpensAt(s, j) == {st \in Statuses : StartsAt(s, j, st \o "{{")}
RECURSIVE inlineOutcomes(_, _)
outcomeAt(s, st, body, end) ==
  IF end = 0 THEN <<>>
  ELSE <<[status |-> st, message |-> SubSeq(s, body, end - 1)]>>
         \o inlineOutcomes(s, end + 2)
outcomeFrom(s, j, st) ==
  outcomeAt(s, st, j + Len(st) + 2, IndexFrom(s, j + Len(st) + 2, "}}"))
outcomesFrom(s, j) ==
  IF j = 0 THEN <<>> ELSE outcomeFrom(s, j, The(OpensAt(s, j)))
inlineOutcomes(s, i) ==
  outcomesFrom(s, MinOrZero({j \in i..Len(s) : OpensAt(s, j) # {}}))

(* syntaxErrorRegex, line 524: every "SyntaxError: " with the rest of its  *)
(* line; timeoutRegex, line 525.                                           *)
RECURSIVE syntaxErrors(_, _)
syntaxErrorsAt(out, i) ==
  IF i = 0 THEN <<>>
  ELSE <<SubSeq(out, i, LineEnd(out, i) - 1)>> \o syntaxErrors(out, LineEnd(out, i))
syntaxErrors(out, i) == syntaxErrorsAt(out, IndexFrom(out, i, "SyntaxError: "))
HasSyntaxError(out) == syntaxErrors(out, 1) # <<>>
HasTimeout(out) ==
  \E i \in 1..Len(out) :
    /\ StartsAt(out, i, "time limit")
    /\ \E j \in (i + 10)..LineEnd(out, i) : StartsAt(out, j, "Killing it")

(* RunInlineTest, lines 594-643: outcome["passed"] and outcome["error"].   *)
RECURSIVE addMessages(_, _)
addMessage(outcome, m, message) ==
  [passed |-> outcome.passed /\ m.status = "OK",
   hasError |-> outcome.hasError \/ message # "",
   error |-> IF message = "" THEN outcome.error
             ELSE IF outcome.hasError THEN outcome.error \o "; " \o message
             ELSE message]
addMessages(outcome, mm) ==
  IF mm = <<>> THEN outcome
  ELSE addMessages(addMessage(outcome, mm[1],
                     IF mm[1].status = "ERROR" THEN "Test error: " \o mm[1].message
                     ELSE mm[1].message),
                   Tail(mm))
(* The local variable passed, lines 594-613.                               *)
passedLocal(out, status) == status = 0 /\ ~HasSyntaxError(out) /\ ~HasTimeout(out)
inlineOutcomeMutant(out, status, mm) ==
  addMessages(
    [passed |-> passedLocal(out, status) /\ mm # <<>>,
     hasError |-> HasSyntaxError(out),
     error |-> Join(syntaxErrors(out, 1), "; ")],
    mm)

inlineOutcome(out, status, mm) ==
  addMessages(
    [passed |-> passedLocal(out, status) /\ mm # <<>>,
     hasError |-> HasSyntaxError(out) \/ HasTimeout(out),
     error |-> IF HasTimeout(out) THEN "Time out."
               ELSE Join(syntaxErrors(out, 1), "; ")],
    mm)

(* html/template escapes the text it inserts.                              *)
HTMLEscape(text) ==
  Replace(Replace(Replace(Replace(Replace(text, "&", "&amp;"), "<", "&lt;"),
                          ">", "&gt;"), "'", "&#39;"), "\"", "&#34;")
(* inlineReportTmpl, lines 540-553, filled as in lines 644-656 for an      *)
(* Autograder without IncludeLogs; source stands for the formatted source. *)
LooksOK == "<span class='ico green'>&check;</span><span class='message'>Looks OK.</span>"
ErrorSpan(error) ==
  "<span class='ico red'>&#x274C;</span><span class='message error'>"
    \o HTMLEscape(error) \o "</span>"
inlineReport(passed, error) ==
  "<div class='code'>source</div>\n"
    \o (IF passed THEN "\n" \o LooksOK \o "\n" ELSE "\n" \o ErrorSpan(error) \o "\n\n")
    \o "\n"

Printing(e, text) == [e EXCEPT !.prints = text]
Raised == {Section("raise", c, m) : c \in Classes, m \in Messages}
Contexts == {Section("absent", "", ""), Section("ok", "", ""),
             Section("raise", "ValueError", "boom")}
Submissions ==
  {Section("ok", "", ""), Printing(Section("ok", "", ""), "OK{{}}\n"),
   Section("exit", "", ""), Printing(Section("exit", "", ""), "OK{{}}\n"),
   Section("hang", "", ""), Printing(Section("hang", "", ""), "ERROR{{x}}\n")}
  \cup Raised
Inlines == {Section("ok", "", ""), Section("raise", "AssertionError", "boom"),
            Section("raise", "ValueError", "boom"), Section("raise", "SystemExit", "boom"),
            Section("hang", "", "")}

InlineInit ==
  /\ LastIdle
  /\ ServerIdle
  /\ AssignIdle
  /\ script \in {[IdleScript EXCEPT !.stage = "context", !.Context = c,
                                     !.Submission = s, !.Inline = t] :
                   c \in Contexts, s \in Submissions, t \in Inlines}
  /\ session = IdleSession
  /\ posting = IdlePosting
  /\ pool = IdlePool

Ran(section, next, r) ==
  [script EXCEPT !.stage = IF r.exited THEN "exited" ELSE next,
                 !.out = @ \o r.out, !.status = r.status,
                 !.ran = @ \cup {section}]

RunContext ==
  /\ script.stage = "context"
  /\ script' = IF script.Context.kind = "absent"
               THEN [script EXCEPT !.stage = "submission"]
               ELSE Ran("context", "submission", contextSection(script.Context))
  /\ UNCHANGED <<lastVars, serverVars, gradeVars, assignVars, session, posting, pool>>

RunSubmission ==
  /\ script.stage = "submission"
  /\ script' = Ran("submission", "inline", submissionSection(script.Submission))
  /\ UNCHANGED <<lastVars, serverVars, gradeVars, assignVars, session, posting, pool>>

RunInline ==
  /\ script.stage = "inline"
  /\ script' = Ran("inline", "exited", inlineSection(script.Inline))
  /\ UNCHANGED <<lastVars, serverVars, gradeVars, assignVars, session, posting, pool>>

(* cmd.CombinedOutput has returned: the outcome is read off the output.    *)
RunInlineTest ==
  /\ script.stage = "exited"
  /\ script' = [script EXCEPT
                  !.stage = "parsed",
                  !.outcome = inlineOutcome(script.out, script.status,
                                            inlineOutcomes(script.out, 1)),
                  !.report = inlineReport(
                               passedLocal(script.out, script.status),
                               inlineOutcome(script.out, script.status,
                                             inlineOutcomes(script.out, 1)).error)]
  /\ UNCHANGED <<lastVars, serverVars, gradeVars, assignVars, session, posting, pool>>

InlineNext ==
  \/ RunContext
  \/ RunSubmission
  \/ RunInline
  \/ RunInlineTest

SpecInline == InlineInit /\ [][InlineNext]_vars

(* C18, as claimed: whenever the submission section of an inline test      *)
(* raises an exception with message msg, the script prints the marker      *)
(* FAIL{{<class>: msg}}, exits with status 1 without entering the inline   *)
(* test section, and the outcome recorded is passed = false.               *)
SubmissionMarker(e) == "FAIL{{" \o ClassRepr(e.class) \o ": " \o e.msg \o "}}"
SubmissionFailed ==
  /\ Contains(script.out, SubmissionMarker(script.Submission))
  /\ script.status = 1
  /\ "inline" \notin script.ran
  /\ ~script.outcome.passed
----------------------------------------------------------------------------
(* Workers.  Every worker consumes the autograde queue through             *)
(* Channel.Receive, queue.go lines 85-110, which calls Consume with        *)
(* auto-ack: the broker forgets a message the moment it delivers it.       *)

(* The messages the broker still holds for a consumer whose connection is  *)
(* gone: with auto-ack none of those delivered to it.                      *)
UnackedMutant(inbox) == inbox

Unacked(inbox) == <<>>

IdOf(m) == m.metadata["submission_id"].s
RECURSIVE IdsOf(_)
IdsOf(msgs) == IF msgs = <<>> THEN {} ELSE {IdOf(msgs[1])} \cup IdsOf(Tail(msgs))
Count(seq, x) == Cardinality({i \in DOMAIN seq : seq[i] = x})

PoolInit ==
  /\ LastIdle
  /\ ServerIdle
  /\ AssignIdle
  /\ pool = IdlePool
  /\ session = IdleSession
  /\ posting = IdlePosting
  /\ script = IdleScript

(* A well-formed upload is accepted and posted (handleUpload, to the end). *)
PoolUpload ==
  /\ nextId <= MaxUploads
  /\ LET r == handleUpload(opts, WellFormed, uploadDir, Uuid(nextId), scratch,
                           autograder, now)
     IN /\ resp' = r.resp
        /\ uploadDir' = r.uploadDir
        /\ autogradeQ' = autogradeQ \o r.posted
        /\ accepted' = accepted \cup {r.resp.id}
  /\ nextId' = nextId + 1
  /\ UNCHANGED <<lastVars, opts, reportQ, reportTimestamp, now, ticks, workerMsg,
                 gradeVars, assignVars, session, posting, script, pool>>

(* The broker delivers the next message to one of the consumers.           *)
Deliver(w) ==
  /\ pool.alive[w]
  /\ autogradeQ # <<>>
  /\ autogradeQ' = Tail(autogradeQ)
  /\ pool' = [pool EXCEPT
                !.inbox[w] = Append(@, Head(autogradeQ)),
                !.delivered = Append(@, <<IdOf(Head(autogradeQ)), w>>)]
  /\ UNCHANGED <<lastVars, opts, uploadDir, reportQ, resp, accepted, reportTimestamp,
                 now, ticks, nextId, workerMsg, gradeVars, assignVars,
                 session, posting, script>>

(* One turn of the work loop, worker.go lines 98-141: the worker grades    *)
(* the next message it holds and posts what workerReport says; postOK is   *)
(* false when q.Post fails, which is logged.                               *)
WorkerLoop(w) ==
  /\ pool.alive[w]
  /\ pool.inbox[w] # <<>>
  /\ \E env \in ServerEnvs, postOK \in BOOLEAN :
       LET g == Grade(autograder, Head(pool.inbox[w]), env, now \div 1000, scratch)
       IN /\ reportQ' = IF postOK THEN reportQ \o workerReport(g) ELSE reportQ
          /\ scratch' = g.scratch
  /\ pool' = [pool EXCEPT
                !.inbox[w] = Tail(@),
                !.graded = Append(@, IdOf(Head(pool.inbox[w])))]
  /\ UNCHANGED <<lastVars, opts, uploadDir, autogradeQ, resp, accepted, reportTimestamp,
                 now, ticks, nextId, workerMsg, autograder, grading, assignVars,
                 session, posting, script>>

(* A worker process dies while it holds messages.                          *)
Crash(w) ==
  /\ pool.alive[w]
  /\ pool.inbox[w] # <<>>
  /\ autogradeQ' = Unacked(pool.inbox[w]) \o autogradeQ
  /\ pool' = [pool EXCEPT
                !.alive[w] = FALSE, !.inbox[w] = <<>>,
                !.lost = @ \cup IdsOf(pool.inbox[w])]
  /\ UNCHANGED <<lastVars, opts, uploadDir, reportQ, resp, accepted, reportTimestamp,
                 now, ticks, nextId, workerMsg, gradeVars, assignVars,
                 session, posting, script>>

(* The worker is started again and consumes the queue anew.                *)
Restart(w) ==
  /\ ~pool.alive[w]
  /\ pool' = [pool EXCEPT !.alive[w] = TRUE]
  /\ UNCHANGED <<lastVars, serverVars, gradeVars, assignVars, session, posting, script>>

PoolNext ==
  \/ PoolUpload
  \/ ListenForReports
  \/ \E w \in Workers :
       \/ Deliver(w)
       \/ WorkerLoop(w)
       \/ Crash(w)
       \/ Restart(w)

SpecPool == PoolInit /\ [][PoolNext]_vars

(* C19: every submission posted is delivered at most once, to one worker,  *)
(* and graded at most once; for a submission whose worker crashed while it *)
(* held the message there is no second delivery, no grading, and neither a *)
(* report message nor a report file, at any time.                          *)
PostedIds == {Uuid(n) : n \in 1..MaxUploads}
Reported(id) ==
  \/ \E i \in DOMAIN reportQ :
       /\ reportQ[i].json
       /\ Has(reportQ[i].data, "submission_id")
       /\ reportQ[i].data["submission_id"] = JStr(id)
  \/ FileExists(uploadDir, TxtName(id))
C19_Formula ==
  /\ \A id \in PostedIds :
       /\ Cardinality({i \in DOMAIN pool.delivered : pool.delivered[i][1] = id}) <= 1
       /\ Count(pool.graded, id) <= 1
  /\ \A id \in pool.lost :
       /\ Count(pool.graded, id) = 0
       /\ id \notin IdsOf(autogradeQ)
       /\ \A w \in Workers : id \notin IdsOf(pool.inbox[w])
       /\ ~Reported(id)
C19_Witness ==
  /\ pool.lost = {Uuid(1)}
  /\ pool.alive = [w \in Workers |-> TRUE]
  /\ pool.graded = <<Uuid(2)>>
  /\ FileExists(uploadDir, TxtName(Uuid(2)))
  /\ autogradeQ = <<>>
  /\ reportQ = <<>>

----------------------------------------------------------------------------
(* The report listener with whatever arrives on the report queue.  A       *)
(* message is what json.Unmarshal into a map makes of it: an error (json   *)
(* false), or the members of the object (none for null).                   *)

MaxReports == 3
ReportFor(id) ==
  [json |-> TRUE,
   data |-> Put(Put(EmptyMap, "submission_id", id),
                "e1", JObj([report |-> "report of e1", graded |-> TRUE,
                            passed |-> TRUE]))]
ReportMessages ==
  {[json |-> FALSE, data |-> EmptyMap],
   [json |-> TRUE, data |-> EmptyMap],
   [json |-> TRUE, data |-> "Report" :> JStr("r")],
   ReportFor(JNum(1)), ReportFor(JObj(NoObj)),
   ReportFor(JStr(Uuid(1))), ReportFor(JStr(Uuid(2)))}
RECURSIVE Queues(_)
Queues(n) ==
  IF n = 0 THEN {<<>>}
  ELSE Queues(n - 1) \cup {Append(q, m) : q \in {p \in Queues(n - 1) : Len(p) = n - 1},
                                          m \in ReportMessages}

ListenInit ==
  /\ LastIdle
  /\ opts = [UseOpenID |-> FALSE, GradeLocally |-> FALSE, LogToBucket |-> FALSE]
  /\ uploadDir = {}
  /\ autogradeQ = <<>>
  /\ reportQ \in Queues(MaxReports)
  /\ resp = NoResponse
  /\ accepted = {}
  /\ reportTimestamp = NoTimestamps
  /\ now = 0
  /\ ticks = 0
  /\ nextId = 1
  /\ workerMsg = <<>>
  /\ scratch = {}
  /\ autograder = [DisableCleanup |-> FALSE, AutoRemove |-> FALSE]
  /\ grading = IdleJob
  /\ AssignIdle
  /\ MoreIdle

(* The listener handles the next message while ioutil.WriteFile fails,     *)
(* lines 1366-1371: the error is logged.                                   *)
ListenWriteFails ==
  /\ ~opts.GradeLocally
  /\ reportQ # <<>>
  /\ listenStep(uploadDir, Head(reportQ)) # uploadDir
  /\ reportQ' = Tail(reportQ)
  /\ UNCHANGED <<lastVars, opts, uploadDir, autogradeQ, resp, accepted, reportTimestamp, now,
                 ticks, nextId, workerMsg, scratch, autograder, grading, assignVars,
                 moreVars>>

ListenNext ==
  \/ ListenForReports
  \/ ListenWriteFails

SpecListen == ListenInit /\ [][ListenNext]_vars /\ WF_vars(ListenNext)

(* C20: a step of the listener changes the upload directory only when the  *)
(* message is a JSON object with a string submission_id s, and then only   *)
(* by making <s>.txt hold the whole message; every other message leaves    *)
(* the directory as it is; and the listener goes on: every message of the  *)
(* queue is taken off it in the end.                                       *)
HasStringId(m) ==
  /\ m.json
  /\ Has(m.data, "submission_id")
  /\ IsJStr(m.data["submission_id"])
C20_Step ==
  reportQ # <<>> /\ reportQ' = Tail(reportQ)
  => IF HasStringId(Head(reportQ))
     THEN uploadDir' \in
            {uploadDir,
             {f \in uploadDir : f.name # TxtName(Head(reportQ).data["submission_id"].s)}
               \cup {[name |-> TxtName(Head(reportQ).data["submission_id"].s),
                      content |-> Head(reportQ)]}}
     ELSE uploadDir' = uploadDir
C20_Formula == [][C20_Step]_vars /\ <>(reportQ = <<>>)
C20_Witness ==
  /\ reportQ = <<>>
  /\ uploadDir = {[name |-> "uuid1.txt", content |-> ReportFor(JStr("uuid1"))]}

----------------------------------------------------------------------------
(* Opening the queue.  The worker and the upload server run the same loop: *)
(* delay starts at 500 ms, retryUntil is 60 s after the start.             *)

InitialDelayMs == 500
RetryForMs == 60000
(* How long a call of queue.Open may take before it returns.               *)
OpenTimes == {0, 1000, 30000}

(* delay = delay * 2, worker.go line 87 and main.go line 161.              *)
nextDelayMutant(delay) == delay + InitialDelayMs

nextDelay(delay) == delay * 2

RetryInit ==
  /\ unitTest = IdleUnit
  /\ running = IdleRunning
  /\ ServerIdle
  /\ AssignIdle
  /\ MoreIdle
  /\ retry \in {[IdleRetry EXCEPT !.pc = "open", !.who = w, !.delay = InitialDelayMs] :
                  w \in {"worker", "uploadserver"}}

(* queue.Open returns an error: the loop gives up when the time is after   *)
(* retryUntil, and sleeps otherwise.                                       *)
OpenFails ==
  /\ retry.pc = "open"
  /\ \E d \in OpenTimes :
       retry' = [retry EXCEPT
                   !.t = @ + d,
                   !.pc = IF retry.t + d > RetryForMs THEN "fatal" ELSE "sleep"]
  /\ UNCHANGED <<serverVars, gradeVars, assignVars, moreVars, unitTest, running>>

(* time.Sleep(delay); delay = delay * 2; continue.                         *)
Sleep ==
  /\ retry.pc = "sleep"
  /\ retry' = [retry EXCEPT
                 !.t = @ + retry.delay,
                 !.sleeps = Append(@, retry.delay),
                 !.delay = nextDelay(@),
                 !.pc = "open"]
  /\ UNCHANGED <<serverVars, gradeVars, assignVars, moreVars, unitTest, running>>

(* queue.Open returns a channel.                                           *)
OpenSucceeds ==
  /\ retry.pc = "open"
  /\ \E d \in OpenTimes : retry' = [retry EXCEPT !.t = @ + d, !.pc = "receive"]
  /\ UNCHANGED <<serverVars, gradeVars, assignVars, moreVars, unitTest, running>>

(* q.Receive: an error ends run, a channel ends the loop.                  *)
Receive ==
  /\ retry.pc = "receive"
  /\ \E ok \in BOOLEAN :
       retry' = [retry EXCEPT !.pc = IF ok THEN "listening" ELSE "fatal"]
  /\ UNCHANGED <<serverVars, gradeVars, assignVars, moreVars, unitTest, running>>

RetryNext ==
  \/ OpenFails
  \/ Sleep
  \/ OpenSucceeds
  \/ Receive

SpecRetry == RetryInit /\ [][RetryNext]_vars /\ WF_vars(RetryNext)

(* C21: the k-th sleep of the loop lasts 500 ms times 2 to the power k-1;  *)
(* no sleep is started, and so no further attempt is scheduled, once more  *)
(* than 60 s have passed: a failure of queue.Open after that time ends the *)
(* loop with an error; and the loop always ends, with a channel or with an *)
(* error.                                                                  *)
RECURSIVE Doubled(_)
Doubled(k) == IF k = 1 THEN InitialDelayMs ELSE 2 * Doubled(k - 1)
C21_Step ==
  /\ (retry.pc = "open" /\ retry'.pc = "sleep") => retry'.t <= RetryForMs
  /\ ~(retry.pc = "open" /\ retry'.pc = "open")
  /\ (retry.pc = "sleep") => retry'.t = retry.t + Doubled(Len(retry.sleeps) + 1)
C21_Formula ==
  /\ [](\A k \in DOMAIN retry.sleeps : retry.sleeps[k] = Doubled(k))
  /\ [][C21_Step]_vars
  /\ <>(retry.pc \in {"listening", "fatal"})
C21_Witness ==
  /\ retry.pc = "fatal"
  /\ retry.sleeps = <<500, 1000, 2000, 4000, 8000, 16000, 32000>>
  /\ retry.t = 63500

----------------------------------------------------------------------------
(* More properties of inline test runs.                                    *)

(* C22: the outcome of an inline test run is passed = true only if the     *)
(* context (when there is one), the submission and the inline test section *)
(* were all entered and none of them raised, ended the process or was      *)
(* killed.                                                                 *)
Completed(e) == e.kind \in {"absent", "ok"}
Killed == Contains(script.out, "time limit (10 >= 10). Killing it")
C24_Claim ==
  (script.stage = "parsed" /\ Killed)
  => /\ ~script.outcome.passed
     /\ script.outcome.error = "Time out."

(* C24, amended: the outcome is passed = false and its error starts with   *)
(* "Time out."; the messages of the FAIL and ERROR markers found in the    *)
(* output are appended to it, so the error is "Time out." alone when the   *)
(* output holds no marker with a message.                                  *)
MarkerMessages(mm) == {i \in DOMAIN mm : mm[i].message # "" \/ mm[i].status = "ERROR"}
C24_Formula ==
  (script.stage = "parsed" /\ Killed)
  => /\ ~script.outcome.passed
     /\ StartsAt(script.outcome.error, 1, "Time out.")
     /\ MarkerMessages(inlineOutcomes(script.out, 1)) = {}
        => script.outcome.error = "Time out."
C24_Witness ==
  /\ script.stage = "parsed"
  /\ script.Inline.kind = "hang"
  /\ "inline" \in script.ran
  /\ script.status = 137
  /\ ~script.outcome.passed
  /\ script.outcome.error = "Time out."

(* C25: the HTML fragment returned for an inline test run holds the        *)
(* success line "Looks OK." exactly when the outcome returned with it is   *)
(* passed = true, and the failure line with the error text otherwise.      *)
C25_Claim ==
  script.stage = "parsed"
  => /\ Contains(script.report, LooksOK) <=> script.outcome.passed
     /\ ~script.outcome.passed
        => Contains(script.report, ErrorSpan(script.outcome.error))

----------------------------------------------------------------------------
(* Unit tests.  RunUnitTests, lines 428-520, runs python -m unittest -v on *)
(* every *Test.py file of the scratch directory and reads the results of   *)
(* the test methods off the output with outcomeRegex, line 424.            *)

MaxResultLines == 2
WordChars == Letters \cup Digits \cup {"_"}
ModuleChars == WordChars \cup {"-"}
UnitStatuses == {"ok", "FAIL", "ERROR"}

(* outcomeRegex at position i: test and word characters, " (", one or more *)
(* module characters, ".", word characters, ") ... " and a status.  The    *)
(* result is the position after the match with the method and the status,  *)
(* or to = 0.                                                              *)
NoResult == [to |-> 0, method |-> "", status |-> ""]
resultStatus(s, i, j, sts) ==
  IF sts = {} THEN NoResult
  ELSE [to |-> j + Len(The(sts)), method |-> SubSeq(s, i, SkipWhile(s, i + 4, WordChars) - 1),
        status |-> The(sts)]
resultTail(s, i, j) ==
  IF ~StartsAt(s, j, ") ... ") THEN NoResult
  ELSE resultStatus(s, i, j + 6, {st \in UnitStatuses : StartsAt(s, j + 6, st)})
resultClass(s, i, j, k) ==
  IF k = j \/ ~StartsAt(s, k, ".") THEN NoResult
  ELSE resultTail(s, i, SkipWhile(s, k + 1, WordChars))
resultModule(s, i, j) ==
  IF ~StartsAt(s, j, " (") THEN NoResult
  ELSE resultClass(s, i, j + 2, SkipWhile(s, j + 2, ModuleChars))
resultAt(s, i) ==
  IF ~StartsAt(s, i, "test") THEN NoResult
  ELSE resultModule(s, i, SkipWhile(s, i + 4, WordChars))

(* outcomeRegex.FindAllSubmatch: the matches from position i on, each the  *)
(* leftmost one after the end of the one before.                           *)
RECURSIVE unitOutcomes(_, _)
unitOutcomesAt(s, j) ==
  IF j = 0 THEN <<>> ELSE <<resultAt(s, j)>> \o unitOutcomes(s, resultAt(s, j).to)
unitOutcomes(s, i) ==
  unitOutcomesAt(s, MinOrZero({j \in i..Len(s) : resultAt(s, j).to # 0}))

(* Lines 486-517: the map of one file, from the exit status and the        *)
(* matches.                                                                *)
RECURSIVE recordMethods(_, _)
recordMethods(testOutcome, mm) ==
  IF mm = <<>> THEN testOutcome
  ELSE recordMethods(
         [testOutcome EXCEPT
            !.methods = Put(@, mm[1].method, mm[1].status = "ok"),
            !.passed = @ /\ mm[1].status = "ok"],
         Tail(mm))
testOutcomeOfMutant(status, mm) ==
  recordMethods([NoTestOutcome EXCEPT !.passed = status = 0], mm)

testOutcomeOf(status, mm) ==
  IF mm = <<>> THEN [NoTestOutcome EXCEPT !.error = "no test cases found"]
  ELSE recordMethods([NoTestOutcome EXCEPT !.passed = status = 0], mm)

(* The lines python -m unittest -v writes: the result of a method,         *)
(* "<method> (<module>.<class>) ... <status>", where recent versions name  *)
(* the method once more after the class, and other text.                   *)
ResultLine(kind, text) == [kind |-> kind, text |-> text]
RunnerLines ==
  {ResultLine("ok", "test_a (HelloTest.HelloTest) ... ok"),
   ResultLine("ok", "test_b (HelloTest.HelloTest) ... ok"),
   ResultLine("FAIL", "test_b (HelloTest.HelloTest) ... FAIL"),
   ResultLine("ERROR", "test_c (Hello-Test.HelloTest) ... ERROR"),
   ResultLine("other", "test_d (HelloTest.HelloTest) ... skipped 'later'"),
   ResultLine("other", "test_a (HelloTest.HelloTest.test_a) ... ok"),
   ResultLine("other", "Ran 1 test in 0.001s")}
RECURSIVE Outputs(_)
Outputs(n) ==
  IF n = 0 THEN {<<>>}
  ELSE Outputs(n - 1) \cup {Append(q, l) : q \in {p \in Outputs(n - 1) : Len(p) = n - 1},
                                           l \in RunnerLines}
RECURSIVE Text(_)
Text(lines) == IF lines = <<>> THEN "" ELSE lines[1].text \o "\n" \o Text(Tail(lines))

UnitInit ==
  /\ ServerIdle
  /\ AssignIdle
  /\ MoreIdle
  /\ retry = IdleRetry
  /\ running = IdleRunning
  /\ unitTest \in {[IdleUnit EXCEPT !.stage = "run", !.lines = l, !.status = st,
                                    !.started = b] :
                     l \in Outputs(MaxResultLines), st \in {0, 1}, b \in BOOLEAN}

(* cmd.CombinedOutput, line 485.                                           *)
CombinedOutput ==
  /\ unitTest.stage = "run"
  /\ unitTest' = IF unitTest.started
                 THEN [unitTest EXCEPT !.stage = "ran", !.out = Text(unitTest.lines)]
                 ELSE [unitTest EXCEPT !.stage = "error"]
  /\ UNCHANGED <<serverVars, gradeVars, assignVars, moreVars, retry, running>>

(* The rest of the iteration, lines 486-517.                               *)
RecordOutcome ==
  /\ unitTest.stage = "ran"
  /\ unitTest' = [unitTest EXCEPT
                    !.stage = "done",
                    !.testOutcome = testOutcomeOf(unitTest.status,
                                                  unitOutcomes(unitTest.out, 1))]
  /\ UNCHANGED <<serverVars, gradeVars, assignVars, moreVars, retry, running>>

UnitNext ==
  \/ CombinedOutput
  \/ RecordOutcome

SpecUnit == UnitInit /\ [][UnitNext]_vars

(* C23: the outcome of a test file is passed = true only if the runner     *)
(* exited with status 0, its output holds at least one result line of a    *)
(* test method, and no result line says FAIL or ERROR.                     *)
LinesOf(kinds) == {i \in DOMAIN unitTest.lines : unitTest.lines[i].kind \in kinds}
C23_Formula ==
  (unitTest.stage = "done" /\ unitTest.testOutcome.passed)
  => /\ unitTest.status = 0
     /\ LinesOf({"ok"}) # {}
     /\ LinesOf({"FAIL", "ERROR"}) = {}
C23_Witness ==
  /\ unitTest.stage = "done"
  /\ unitTest.testOutcome.passed
  /\ unitTest.testOutcome.methods = ("test_a" :> TRUE) @@ ("test_b" :> TRUE)
  /\ unitTest.status = 0

----------------------------------------------------------------------------
(* Grading in parallel.  In combined mode every upload handler calls       *)
(* Autograder.Grade itself (uploadserver.go, line 1300), and the handlers  *)
(* of a server run in parallel.  RunUnitTests, RunInlineTests and          *)
(* RenderReports each begin with os.Chdir(dir), which changes the working  *)
(* directory of the whole process.                                         *)

ExerciseIDs == {"ex1", "ex2"}
(* filepath.Join(baseScratchDir, exerciseID), lines 270 and 324, with the  *)
(* scratch_dir of the server, /tmp/autograde.                              *)
ScratchDirOf(id, exerciseID) == "/tmp/autograde/" \o id \o "/" \o exerciseID
JobDir(id) == ScratchDirOf(id, running.job[id].exercise)
Command(kind, file, dir, found) ==
  [kind |-> kind, file |-> file, dir |-> dir, found |-> found]
(* The scratch directories that hold the files of an exercise are the ones *)
(* CreateScratchDir made for a job that grades this exercise.              *)
HasFile(dir, exerciseID) ==
  \E id \in SubmissionIDs : /\ running.job[id].pc \notin {"idle"}
                            /\ running.job[id].exercise = exerciseID
                            /\ dir = ScratchDirOf(id, exerciseID)

RunningInit ==
  /\ ServerIdle
  /\ AssignIdle
  /\ MoreIdle
  /\ retry = IdleRetry
  /\ unitTest = IdleUnit
  /\ running = IdleRunning

(* GradeExercise up to the call of RunUnitTests, lines 360-379.            *)
GradeExerciseIn(id) ==
  /\ running.job[id].pc = "idle"
  /\ \E ex \in ExerciseIDs :
       running' = [running EXCEPT !.job[id] = [@ EXCEPT !.pc = "unit", !.exercise = ex]]
  /\ UNCHANGED <<serverVars, gradeVars, assignVars, moreVars, retry, unitTest>>

(* os.Chdir(dir), lines 433, 682 and 721.                                  *)
Chdir(id) ==
  /\ running.job[id].pc \in {"unit", "inline", "report"}
  /\ running' = [running EXCEPT !.cwd = JobDir(id),
                                !.job[id].pc = running.job[id].pc \o "-run"]
  /\ UNCHANGED <<serverVars, gradeVars, assignVars, moreVars, retry, unitTest>>

(* Lines 462-485: nsjail --cwd dir python -m unittest -v <file>; the jail  *)
(* changes to dir, which is absolute, before it starts python.             *)
RunUnitTest(id) ==
  /\ running.job[id].pc = "unit-run"
  /\ running' = [running EXCEPT
       !.job[id].pc = "inline",
       !.job[id].ran = Append(@, Command("unit", running.job[id].exercise \o "Test.py",
                                         JobDir(id), TRUE))]
  /\ UNCHANGED <<serverVars, gradeVars, assignVars, moreVars, retry, unitTest>>

(* Lines 570-596: nsjail --cwd dir python <file>.                          *)
RunInlineTestIn(id) ==
  /\ running.job[id].pc = "inline-run"
  /\ running' = [running EXCEPT
       !.job[id].pc = "report",
       !.job[id].ran = Append(@, Command("inline", running.job[id].exercise \o "_inlinetest.py",
                                         JobDir(id), TRUE))]
  /\ UNCHANGED <<serverVars, gradeVars, assignVars, moreVars, retry, unitTest>>

(* Lines 725-758: the templates are the ones listed in dir, and            *)
(* exec.Command("python", filename) starts python in the working directory *)
(* of the process with the relative name of the file.                      *)
RenderReport(id) ==
  /\ running.job[id].pc = "report-run"
  /\ running' = [running EXCEPT
       !.job[id].pc = "done",
       !.job[id].ran = Append(@, Command("report", running.job[id].exercise \o "_template.py",
                                         running.cwd,
                                         HasFile(running.cwd, running.job[id].exercise)))]
  /\ UNCHANGED <<serverVars, gradeVars, assignVars, moreVars, retry, unitTest>>

(* The handler returns; the next upload of the student starts anew.        *)
Graded(id) ==
  /\ running.job[id].pc = "done"
  /\ running' = [running EXCEPT !.job[id] = IdleRun]
  /\ UNCHANGED <<serverVars, gradeVars, assignVars, moreVars, retry, unitTest>>

RunningNext ==
  \E id \in SubmissionIDs :
    \/ GradeExerciseIn(id)
    \/ Chdir(id)
    \/ RunUnitTest(id)
    \/ RunInlineTestIn(id)
    \/ RenderReport(id)
    \/ Graded(id)

SpecRunning == RunningInit /\ [][RunningNext]_vars

(* C26: with several submissions graded at once in one process, every unit *)
(* test, inline test and report template of a job is looked up and run in  *)
(* the scratch directory of that job.                                      *)
C26_Claim ==
  \A id \in SubmissionIDs : \A k \in DOMAIN running.job[id].ran :
    /\ running.job[id].ran[k].dir = JobDir(id)
    /\ running.job[id].ran[k].found

----------------------------------------------------------------------------
(* C27: the <Name>_context.py emitted for an inline test holds the         *)
(* student-cleaned code of the global context followed by that of the      *)
(* exercise context (the code cells ToAutograder collected since the       *)
(* metadata block of the current exercise), in notebook order.             *)
ContextSource(r) == Join(r.parts, "\n") \o "\n"
C27_Step ==
  (/\ conv.op = "autograder" /\ conv.state = "run"
   /\ conv.pos <= Len(master.cells)
   /\ master.cells[conv.pos].type = "code"
   /\ IsMatch(FindInlineTest(master.cells[conv.pos].source))
   /\ conv'.state = "run")
  => conv'.cells[Len(conv.cells) + 1].source
       = ContextSource(contextParts(conv.globalContext \o conv.exerciseContext, 1,
                                    conv.assignmentMetadata, conv.exerciseMetadata))
C27_Claim == [][C27_Step]_vars

----------------------------------------------------------------------------
(* ToStudent on notebooks with exercises: metadata blocks, solution cells  *)
(* and other cells.                                                        *)
MaxExerciseCells == 3
TwoSolutionsCode ==
  CodeCell("%%solution\ndef f(x):\n  # BEGIN SOLUTION\n  y = 1\n  # END SOLUTION\n  if x:\n    # BEGIN SOLUTION\n    y = 2\n    # END SOLUTION\n  return y\n")
ExerciseVocabulary ==
  {ExerciseMetadataText, Exercise2MetadataText, TitleText, PlainCode, SolutionCode,
   BareSolutionCode, TwoSolutionsCode}
ExerciseMasters ==
  {Master(TRUE, cs) : cs \in CellSeqsOf(ExerciseVocabulary, MaxExerciseCells)}

ExerciseInit ==
  /\ LastIdle
  /\ ServerIdle
  /\ MoreIdle
  /\ master \in ExerciseMasters
  /\ conv = StudentStart(master, "")
  /\ written = NoFiles
  /\ trip = IdleTrip

SpecExercise == ExerciseInit /\ [][StudentNext]_vars

(* C28: in student mode an exercise metadata block is attached to exactly  *)
(* one output cell, the first solution cell that follows the block; every  *)
(* other cell, a later solution cell with no new block before it included, *)
(* carries no exercise metadata.                                           *)
IsExerciseBlock(cell) ==
  cell.type = "markdown" /\ hasMetadata("# EXERCISE METADATA", cell.source)
IsSolutionCell(cell) ==
  cell.type = "code" /\ IsMatch(FindSolutionMagic(stripTestMarkers(cell.source)))
FirstAfterBlock(cells, i) ==
  \E b \in 1..(i - 1) : /\ IsExerciseBlock(cells[b])
                        /\ \A k \in (b + 1)..(i - 1) : ~IsSolutionCell(cells[k])
C28_Step ==
  (/\ conv.op = "student" /\ conv.state = "run"
   /\ conv.pos <= Len(master.cells)
   /\ Len(conv'.cells) = Len(conv.cells) + 1)
  => (conv'.cells[Len(conv'.cells)].hasMeta
        <=> (IsSolutionCell(master.cells[conv.pos])
             /\ FirstAfterBlock(master.cells, conv.pos)))
C28_Claim == [][C28_Step]_vars

----------------------------------------------------------------------------
(* C29: in a solution cell without a prompt block every span from          *)
(* BEGIN SOLUTION to END SOLUTION is replaced by "..." with the            *)
(* indentation of the BEGIN SOLUTION line of that span, and the text       *)
(* outside the spans is kept as it is, in its order.                       *)
RECURSIVE OwnPlaceholders(_, _, _, _)
OwnPlaceholders(source, mbeg, mend, i) ==
  mbeg[i].indent \o "..."
  \o (IF i < Len(mbeg)
      THEN SubSeq(source, mend[i].to, mbeg[i + 1].from - 1)
           \o OwnPlaceholders(source, mbeg, mend, i + 1)
      ELSE From(source, mend[i].to))
SpansOf(source, mbeg, mend) ==
  /\ Len(mbeg) = Len(mend)
  /\ Len(mbeg) >= 1
  /\ \A i \in DOMAIN mbeg : mbeg[i].to <= mend[i].from
  /\ \A i \in 1..(Len(mbeg) - 1) : mend[i].to <= mbeg[i + 1].from
WithPlaceholders(source) ==
  Upto(source, FindAllSolutionBegin(source)[1].from)
  \o OwnPlaceholders(source, FindAllSolutionBegin(source), FindAllSolutionEnd(source), 1)
AfterMagic(source) == From(source, FindSolutionMagic(source).to)
C29_Step ==
  (/\ conv.op = "student" /\ conv.state = "run"
   /\ conv.pos <= Len(master.cells)
   /\ IsSolutionCell(master.cells[conv.pos])
   /\ ~IsMatch(FindPromptBegin(AfterMagic(master.cells[conv.pos].source)))
   /\ SpansOf(AfterMagic(master.cells[conv.pos].source),
              FindAllSolutionBegin(AfterMagic(master.cells[conv.pos].source)),
              FindAllSolutionEnd(AfterMagic(master.cells[conv.pos].source))))
  => /\ Len(conv'.cells) = Len(conv.cells) + 1
     /\ conv'.cells[Len(conv'.cells)].source
          = WithPlaceholders(AfterMagic(master.cells[conv.pos].source))
C29_Claim == [][C29_Step]_vars

----------------------------------------------------------------------------
(* C30: every message the server posts to the autograde queue carries a    *)
(* metadata.submission_id <id> for which <upload_dir>/<id>.ipynb was       *)
(* written in the same request with the uploaded bytes as they came; an    *)
(* upload that is rejected after that write (its bytes are not JSON) posts *)
(* nothing and is never graded, and its .ipynb file stays in the upload    *)
(* directory.                                                              *)
Posted == {autogradeQ'[k] : k \in (Len(autogradeQ) + 1)..Len(autogradeQ')}
WrittenNow == uploadDir' \ uploadDir
(* The uploaded bytes of a message: the message is what InjectMetadata     *)
(* makes of them.                                                          *)
IsRawOf(content, m) ==
  /\ content.json
  /\ {"user_hash", "timestamp"} \subseteq DOMAIN m.metadata
  /\ m = InjectMetadata(content, IdOf(m), m.metadata["user_hash"].s,
                        m.metadata["timestamp"].n)
Rejected(dir) == {f \in IpynbFiles(dir) : ~f.content.json}
CarriesId(msgs, name) ==
  \E k \in DOMAIN msgs : /\ Has(msgs[k].metadata, "submission_id")
                         /\ IpynbName(IdOf(msgs[k])) = name
C30_Step ==
  /\ \A m \in Posted :
       /\ Has(m.metadata, "submission_id")
       /\ IsJStr(m.metadata["submission_id"])
       /\ \E f \in WrittenNow : f.name = IpynbName(IdOf(m)) /\ IsRawOf(f.content, m)
  /\ (Rejected(WrittenNow) # {})
       => /\ Posted = {}
          /\ resp'.status = 500
          /\ Cardinality(WrittenNow) = 1
          /\ scratch' = scratch
  /\ IpynbFiles(uploadDir) \subseteq uploadDir'
C30_Ungraded ==
  \A f \in Rejected(uploadDir) :
    /\ ~CarriesId(autogradeQ, f.name)
    /\ ~CarriesId(workerMsg, f.name)
    /\ \A n \in 1..MaxUploads :
         f.name = IpynbName(Uuid(n)) => ~FileExists(uploadDir, reportFilename(Uuid(n)))
C30_Formula == [] C30_Ungraded /\ [][C30_Step]_vars
C30_Witness ==
  /\ ~opts.GradeLocally
  /\ \E f \in Rejected(uploadDir) : f.name = IpynbName(Uuid(1))
  /\ \E f \in uploadDir : f.name = IpynbName(Uuid(2)) /\ f.content = GoodUpload
  /\ Len(autogradeQ) = 1
  /\ IdOf(autogradeQ[1]) = Uuid(2)
  /\ resp.status = 200

====
